---- MODULE Spec2Model ----
(***************************************************************************)
(* Docstring splicer, annotation renderer and type-comment reader of       *)
(* sphinx-autodoc-typehints (src/src/sphinx_autodoc_typehints/__init__.py).*)
(*                                                                         *)
(* A docstring line is a sequence of tokens whose concatenation is the     *)
(* text of the line.  The token " " is one space, the token ":" is one     *)
(* colon; no other token of a docstring line holds a space or a colon.     *)
(* Every other token is a maximal alphanumeric run, one punctuation mark   *)
(* or one backslash escape, so a text has one tokenisation only.           *)
(* With that convention str.split, str.startswith, str.find, str.strip     *)
(* and the `in` test of the source are computed on tokens exactly as the   *)
(* source computes them on characters.  A rendered annotation (the result  *)
(* of add_type_css_class(format_annotation(..))) and a formatted default   *)
(* value are single opaque tokens: the splicer never looks inside them.    *)
(***************************************************************************)
EXTENDS Integers, Sequences, FiniteSets, TLC

VARIABLES
    lines,      \* the docstring line buffer (list[str]), mutated in place
    orig,       \* the buffer as it was handed to process_docstring
    params,     \* signature.parameters with type_hints.get(name) and default
    ret,        \* type_hints["return"] ("" when the key is absent)
    skipReturn, \* original_obj is a class / data descriptor, or an __init__ method
    config,     \* app.config
    pc,         \* position inside _inject_types_to_docstring
    k,          \* index of the parameter the loop of _inject_signature is at
    ins,        \* insert_index of the last loop iteration (-1 for None)
    insName,    \* arg_name of the last loop iteration, as written in the :type line
    synth,      \* the last loop iteration synthesized its :param line
    rinfo,      \* what _inject_rtype did: "none" (not run), "off", "skip", "keep",
                \* "insert", "rewrite"
    expression, \* the annotation as written in the source, before the typing
                \* runtime builds the object format_annotation receives
    ann,        \* the annotation object handed to format_annotation
    rendered,   \* the return value of format_annotation
    func,       \* the function definition backfill_type_hints reads (ast.FunctionDef)
    hints,      \* the return value of backfill_type_hints
    log,        \* the warnings logged through _LOGGER.warning, oldest first
    splitArgs,  \* the list split_type_comment_args returned to backfill_type_hints
    sources,    \* inspect.getsource of each module: its TYPE_CHECKING blocks, in order
    resolved,   \* _TYPE_GUARD_IMPORTS_RESOLVED: names of the modules resolved
    globalsIds, \* _TYPE_GUARD_IMPORTS_RESOLVED_GLOBALS_ID (a module stands for the id
                \* of its globals)
    namespace,  \* the modules whose globals hold the name their guard block binds
    stack,      \* the calls of _resolve_type_guarded_imports in progress, outermost first
    executed,   \* how many times exec has run each guarded block
    calls       \* the modules of the callables resolved so far in the build

vars == <<lines, orig, params, ret, skipReturn, config, pc, k, ins, insName, synth, rinfo,
          expression, ann, rendered, func, hints, log, splitArgs,
          sources, resolved, globalsIds, namespace, stack, executed, calls>>

\* Longest docstring buffer handed to process_docstring.
MaxLines == 3

(***************************************************************************)
(* Strings                                                                 *)
(***************************************************************************)
SP == " "
COLON == ":"

\* str.startswith(prefix)
StartsWith(line, prefix) ==
    /\ Len(line) >= Len(prefix)
    /\ SubSeq(line, 1, Len(prefix)) = prefix

\* index of the first occurrence of tok at or after position from, 0 if none
IndexFrom(line, tok, from) ==
    IF \E i \in from..Len(line) : line[i] = tok
      THEN CHOOSE i \in from..Len(line) :
               /\ line[i] = tok
               /\ \A j \in from..(i - 1) : line[j] # tok
      ELSE 0

\* index of the first token other than a space at or after from, 0 if none
NonSpaceFrom(line, from) ==
    IF \E i \in from..Len(line) : line[i] # SP
      THEN CHOOSE i \in from..Len(line) :
               /\ line[i] # SP
               /\ \A j \in from..(i - 1) : line[j] = SP
      ELSE 0

\* bool(line.strip())
Stripped(line) == NonSpaceFrom(line, 1) # 0

\* line[from:], from a 1-based position
Slice(line, from) == SubSeq(line, from, Len(line))

\* the separator test looking for a longer dash: " --- " in line
HasDashes_Long(line) ==
    \E i \in 1..(Len(line) - 2) :
        line[i] = SP /\ line[i + 1] = "---" /\ line[i + 2] = SP

\* " -- " in line
HasDashes(line) ==
    \E i \in 1..(Len(line) - 2) :
        line[i] = SP /\ line[i + 1] = "--" /\ line[i + 2] = SP

\* list.insert written as an assignment: the line at index is overwritten
PyInsert_Overwrite(list, index, x) ==
    IF index >= 0 /\ index < Len(list)
      THEN [list EXCEPT ![index + 1] = x]
      ELSE Append(list, x)

\* list.insert(index, x) for a 0-based Python index: a negative index counts
\* from the end, and an index outside the list is clamped to its ends
PyInsert(list, index, x) ==
    LET n == Len(list)
        i0 == IF index < 0 THEN index + n ELSE index
        i == IF i0 < 0 THEN 0 ELSE IF i0 > n THEN n ELSE i0
    IN  SubSeq(list, 1, i) \o <<x>> \o SubSeq(list, i + 1, n)

\* list[index] = x for a 0-based index inside the list
PySet(list, index, x) == [list EXCEPT ![index + 1] = x]

(***************************************************************************)
(* Field recognition                                                       *)
(***************************************************************************)

\* mid.split(maxsplit=1) for a text whose first word starts at s and ends
\* before e: <<word, rest>>, where the rest <<>> stands for None
SplitWordAt(mid, s, e, r) ==
    IF r = 0 THEN <<SubSeq(mid, s, e - 1), <<>>>>
    ELSE <<SubSeq(mid, s, e - 1), Slice(mid, r)>>

SplitWordFrom(mid, s, e) == SplitWordAt(mid, s, e, NonSpaceFrom(mid, e))

\* split_directive_and_name, <<>> when the text holds no word
SplitWord(mid, s, e0) ==
    IF s = 0 THEN <<>>
    ELSE SplitWordFrom(mid, s, IF e0 = 0 THEN Len(mid) + 1 ELSE e0)

SplitDirectiveAndName(mid, s) == SplitWord(mid, s, IndexFrom(mid, SP, s))

\* line.split(":", maxsplit=2)[1] when the line has two colons, at c1 and c2
BetweenColons(line, c1, c2) ==
    IF c2 = 0 THEN <<>>
    ELSE SplitDirectiveAndName(SubSeq(line, c1 + 1, c2 - 1),
                               NonSpaceFrom(SubSeq(line, c1 + 1, c2 - 1), 1))

AfterFirstColon(line, c1) ==
    BetweenColons(line, c1, IF c1 = 0 THEN 0 ELSE IndexFrom(line, COLON, c1 + 1))

\* _get_sphinx_line_keyword_and_argument: <<>> for None, else
\* <<keyword, argument>> where the argument <<>> stands for None
_get_sphinx_line_keyword_and_argument(line) ==
    AfterFirstColon(line, IndexFrom(line, COLON, 1))

\* the keywords _line_is_param_line_for_arg accepts
ParamKeywords == {<<"param">>, <<"parameter">>, <<"arg">>, <<"argument">>}

\* the prefixes under which a starred parameter may be documented
\* ("", "\\*", "\\**", "\\*\\*")
StarPrefixes == {<<>>, <<"\\*">>, <<"\\*", "*">>, <<"\\*", "\\*">>}

\* the checks of _line_is_param_line_for_arg on the keyword and name found
IsParamFieldFor(keyword_and_name, arg_name) ==
    /\ keyword_and_name # <<>>
    /\ keyword_and_name[2] # <<>>
    /\ keyword_and_name[1] \in ParamKeywords
    /\ \E prefix \in StarPrefixes : keyword_and_name[2] = prefix \o arg_name

_line_is_param_line_for_arg(line, arg_name) ==
    IsParamFieldFor(_get_sphinx_line_keyword_and_argument(line), arg_name)

(***************************************************************************)
(* Rendering, as far as the splicer sees it                                *)
(***************************************************************************)

\* add_type_css_class(format_annotation(annotation, app.config)): one token
FormattedAnnotation(annotation) == "<" \o annotation \o ">"

\* the repr of a default value inside its literal quotes, one token
DefaultLiteral == "<repr>"

\* format_default for a parameter that has a default
format_default(typehints_defaults, is_annotated) ==
    IF is_annotated
      THEN IF typehints_defaults \in {"braces", "braces-after"}
             THEN <<SP, "(", "default", COLON, SP, DefaultLiteral, ")">>
             ELSE <<",", SP, "default", COLON, SP, DefaultLiteral>>
      ELSE IF typehints_defaults = "braces-after"
             THEN <<SP, "(", "default", COLON, SP, DefaultLiteral, ")">>
             ELSE <<"default", COLON, SP, DefaultLiteral>>

(***************************************************************************)
(* _inject_signature                                                       *)
(***************************************************************************)

\* arg_name as the loop rewrites it when it ends with an underscore
EscapedName(name) ==
    IF name # <<>> /\ name[Len(name)] = "_"
      THEN SubSeq(name, 1, Len(name) - 1) \o <<"\\_">>
      ELSE name

\* the enumerate loop: 0-based index of the first parameter line, -1 for None
FindParamLine(buf, arg_name) ==
    IF \E at \in 1..Len(buf) : _line_is_param_line_for_arg(buf[at], arg_name)
      THEN (CHOOSE at \in 1..Len(buf) :
               /\ _line_is_param_line_for_arg(buf[at], arg_name)
               /\ \A j \in 1..(at - 1) : ~_line_is_param_line_for_arg(buf[j], arg_name)) - 1
      ELSE -1

\* _append_default with the "after" layout: the 0-based index of the line
\* that receives the default, scanning from next_index
\* the scan left out: the default goes to the line at insert_index
AppendIndex_NoScan(buf, next_index, append_index) == append_index

RECURSIVE AppendIndex(_, _, _)
AppendIndex(buf, next_index, append_index) ==
    IF next_index < Len(buf)
       /\ (buf[next_index + 1] = <<>> \/ StartsWith(buf[next_index + 1], <<SP>>))
      THEN AppendIndex(buf, next_index + 1,
                       IF buf[next_index + 1] # <<>> THEN next_index ELSE append_index)
      ELSE append_index

\* lines[append_index] += formatted_default, IndexError outside the buffer
AppendAt(buf, append_index, type_annotation, formatted_default) ==
    IF append_index >= Len(buf)
      THEN [lines |-> buf, type_annotation |-> type_annotation, raised |-> TRUE]
      ELSE [lines |-> PySet(buf, append_index, buf[append_index + 1] \o formatted_default),
            type_annotation |-> type_annotation, raised |-> FALSE]

\* _append_default: the buffer and the type line it leaves, and whether
\* lines[append_index] raised IndexError
_append_default(typehints_defaults, buf, insert_index, type_annotation, formatted_default) ==
    IF typehints_defaults = "braces-after"
      THEN AppendAt(buf, AppendIndex(buf, insert_index + 1, insert_index),
                    type_annotation, formatted_default)
      ELSE [lines |-> buf, type_annotation |-> type_annotation \o formatted_default,
            raised |-> FALSE]

\* `if app.config.typehints_defaults:` (None is "none", False is "false")
IsSet(value) == value \notin {"none", "false"}

\* f":type {arg_name}: {formatted_annotation}", ":type {arg_name}: " for None
TypeLine(arg_name, annotation) ==
    <<COLON, "type", SP>> \o arg_name \o <<COLON, SP>>
        \o (IF annotation = "" THEN <<>> ELSE <<FormattedAnnotation(annotation)>>)

\* the rest of the loop body skipped for a parameter without annotation
InsertType_AnnotatedOnly(buf, p, cfg, arg_name, insert_index, append) ==
    [insert_index |-> IF p.annotation = "" THEN -1 ELSE insert_index,
     arg_name |-> arg_name, append |-> append,
     line |-> [lines |-> buf, type_annotation |-> TypeLine(arg_name, p.annotation),
               raised |-> FALSE]]

\* the body of the loop from `if insert_index is not None` on, up to the
\* call of lines.insert
InsertType(buf, p, cfg, arg_name, insert_index, append) ==
    [insert_index |-> insert_index, arg_name |-> arg_name, append |-> append,
     line |->
        IF insert_index # -1 /\ IsSet(cfg.typehints_defaults) /\ p.has_default
          THEN _append_default(cfg.typehints_defaults, buf, insert_index,
                               TypeLine(arg_name, p.annotation),
                               format_default(cfg.typehints_defaults, p.annotation # ""))
          ELSE [lines |-> buf, type_annotation |-> TypeLine(arg_name, p.annotation),
                raised |-> FALSE]]

\* `if annotation is not None and insert_index is None and always_document_param_types`
Synthesize(buf, p, cfg, arg_name, found, append) ==
    IF append
      THEN InsertType(Append(buf, <<COLON, "param", SP>> \o arg_name \o <<COLON>>),
                      p, cfg, arg_name, Len(buf) + 1, TRUE)
      ELSE InsertType(buf, p, cfg, arg_name, found, FALSE)

\* the loop body keeping the signature's name: the name written in the
\* docstring is not read back
Located_SignatureName(buf, p, cfg, arg0, found) ==
    Synthesize(buf, p, cfg, arg0, found,
               p.annotation # "" /\ found = -1 /\ cfg.always_document_param_types)

\* the loop body once the enumerate loop has ended with insert_index = found
Located(buf, p, cfg, arg0, found) ==
    Synthesize(buf, p, cfg,
               IF found = -1 THEN arg0
               ELSE _get_sphinx_line_keyword_and_argument(buf[found + 1])[2],
               found,
               p.annotation # "" /\ found = -1 /\ cfg.always_document_param_types)

\* the loop body for the parameter whose (escaped) name is arg0
WithName(buf, p, cfg, arg0) == Located(buf, p, cfg, arg0, FindParamLine(buf, arg0))

\* the loop body of _inject_signature for parameter p
LoopBody(buf, p, cfg) == WithName(buf, p, cfg, EscapedName(p.name))

\* the end of one iteration: lines.insert, or the IndexError of _append_default
Iterate(it) ==
    /\ ins' = it.insert_index
    /\ insName' = it.arg_name
    /\ synth' = it.append
    /\ IF it.insert_index = -1
         THEN lines' = lines /\ pc' = pc /\ k' = k + 1
         ELSE IF it.line.raised
           THEN lines' = it.line.lines /\ pc' = "IndexError" /\ k' = k
           ELSE /\ lines' = PyInsert(it.line.lines, it.insert_index, it.line.type_annotation)
                /\ pc' = pc
                /\ k' = k + 1

\* one iteration of the loop over signature.parameters
InjectParam ==
    /\ pc = "signature"
    /\ k <= Len(params)
    /\ Iterate(LoopBody(lines, params[k], config))
    /\ UNCHANGED <<orig, params, ret, skipReturn, config, rinfo>>
    /\ UNCHANGED <<expression, ann, rendered, func, hints, log, splitArgs>>
    /\ UNCHANGED <<sources, resolved, globalsIds, namespace, stack, executed, calls>>

(***************************************************************************)
(* The docutils parse of the buffer, as far as get_insert_index reads it:  *)
(* the top-level children of the document, each with its tag name, the     *)
(* names of its fields (a field list) and the values node_line_no may      *)
(* return for it (1-based; 0 stands for None).  A paragraph reports its    *)
(* first line.  A one-line directive or definition followed by exactly one *)
(* blank line reports the line after its first one                         *)
(* (tests/test_integration.py, func_with_examples, func_with_code_block    *)
(* and func_with_definition_list).  For the other nodes (system messages,  *)
(* block quotes, blocks that end without a blank line or with several) the *)
(* sources do not determine the line: it is None or any line from the      *)
(* first line of the block on.                                             *)
(***************************************************************************)

LineKind(line) ==
    IF ~Stripped(line) THEN "blank"
    ELSE IF line[1] = SP THEN "indent"
    ELSE IF StartsWith(line, <<".", ".", SP>>) THEN "directive"
    ELSE LET j == IF Len(line) < 3 THEN 0
                  ELSE IF \E i \in 3..Len(line) :
                             line[i] = COLON /\ (i = Len(line) \/ line[i + 1] = SP)
                    THEN CHOOSE i \in 3..Len(line) :
                             /\ line[i] = COLON /\ (i = Len(line) \/ line[i + 1] = SP)
                             /\ \A h \in 3..(i - 1) :
                                    ~(line[h] = COLON /\ line[h + 1] = SP)
                    ELSE 0
         IN  IF line[1] = COLON /\ j # 0 /\ line[2] \notin {COLON, SP} /\ line[j - 1] # SP
               THEN "field" ELSE "text"

\* the name of a field line: the text between its two marker colons
FieldName(line) ==
    LET j == CHOOSE i \in 3..Len(line) :
                 /\ line[i] = COLON /\ (i = Len(line) \/ line[i + 1] = SP)
                 /\ \A h \in 3..(i - 1) : ~(line[h] = COLON /\ line[h + 1] = SP)
    IN  SubSeq(line, 2, j - 1)

\* first position at or after i whose line kind is in kinds, Len(buf)+1 if none
NextOfKind(buf, i, kinds) ==
    IF \E e \in i..Len(buf) : LineKind(buf[e]) \in kinds
      THEN CHOOSE e \in i..Len(buf) :
               /\ LineKind(buf[e]) \in kinds
               /\ \A h \in i..(e - 1) : LineKind(buf[h]) \notin kinds
      ELSE Len(buf) + 1

\* None, or a line at or after the 1-based line from
LineNoFrom(buf, from) == {0} \cup from..(Len(buf) + 1)

\* line i is blank and is the only blank line before the next block or the
\* end of the buffer
OneBlankAt(buf, i) ==
    /\ i <= Len(buf)
    /\ LineKind(buf[i]) = "blank"
    /\ (i = Len(buf) \/ LineKind(buf[i + 1]) \notin {"blank", "indent"})

Node(tag, line_no, names) == [tag |-> tag, line_no |-> line_no, names |-> names]

SystemMessage(buf, from) == Node("system_message", LineNoFrom(buf, from), {})

\* a block that ends at position e - 1: the warning docutils adds when the
\* next block starts without a blank line in between
Unindent(buf, e) ==
    IF e <= Len(buf) /\ LineKind(buf[e - 1]) # "blank"
      THEN <<SystemMessage(buf, e - 1)>> ELSE <<>>

RECURSIVE ParseFrom(_, _)
ParseFrom(buf, i) ==
    IF i > Len(buf) THEN <<>>
    ELSE LET kind == LineKind(buf[i])
             nextKind == IF i < Len(buf) THEN LineKind(buf[i + 1]) ELSE "eof"
         IN
         CASE kind = "blank" -> ParseFrom(buf, i + 1)
           [] kind = "field" ->
                LET e == NextOfKind(buf, i + 1, {"text", "directive"})
                    names == {FieldName(buf[j]) :
                                 j \in {h \in i..(e - 1) : LineKind(buf[h]) = "field"}}
                IN  <<Node("field_list", {i}, names)>>
                        \o Unindent(buf, e) \o ParseFrom(buf, e)
           [] kind = "text" /\ nextKind = "indent" ->
                LET e == NextOfKind(buf, i + 1, {"text", "directive", "field"})
                    oneLine == OneBlankAt(buf, i + 2)
                IN  <<Node("definition_list",
                           IF oneLine THEN {i + 1} ELSE LineNoFrom(buf, i), {})>>
                        \o Unindent(buf, e) \o ParseFrom(buf, e)
           [] kind = "text" /\ nextKind # "indent" ->
                LET e == NextOfKind(buf, i + 1, {"blank", "indent"})
                IN  <<Node("paragraph", {i}, {})>>
                        \o (IF e <= Len(buf) /\ LineKind(buf[e]) = "indent"
                              THEN <<SystemMessage(buf, e - 1)>> ELSE <<>>)
                        \o ParseFrom(buf, e)
           [] kind = "indent" ->
                LET e == NextOfKind(buf, i + 1, {"text", "directive", "field"})
                IN  <<Node("block_quote", LineNoFrom(buf, i), {})>>
                        \o Unindent(buf, e) \o ParseFrom(buf, e)
           [] kind = "directive" ->
                IF nextKind = "blank"
                  THEN <<Node("rubric",
                              IF OneBlankAt(buf, i + 1) THEN {i + 1} ELSE LineNoFrom(buf, i),
                              {})>> \o ParseFrom(buf, i + 1)
                  ELSE LET e == NextOfKind(buf, i + 1, {"text", "directive", "field"})
                       IN  <<Node("rubric", LineNoFrom(buf, i), {})>>
                               \o Unindent(buf, e) \o ParseFrom(buf, e)

\* parse("\n".join(lines), settings).children
DocChildren(buf) == ParseFrom(buf, 1)

(***************************************************************************)
(* get_insert_index and _inject_rtype                                      *)
(***************************************************************************)

PARAM_SYNONYMS == {"param", "parameter", "arg", "argument", "keyword", "kwarg", "kwparam"}

InsertIndexInfo(insert_index, found_param, found_return, found_directive) ==
    [insert_index |-> insert_index, found_param |-> found_param,
     found_return |-> found_return, found_directive |-> found_directive]

\* the result None of get_insert_index
NoInsertIndex == InsertIndexInfo(-1, FALSE, FALSE, FALSE)

\* the test for :rtype: written like the test for a field with an argument
IsRtypeLine_Spaced(line) == StartsWith(line, <<COLON, "rtype", SP>>)

\* line.startswith(":rtype:")
IsRtypeLine(line) == StartsWith(line, <<COLON, "rtype", COLON>>)

IsReturnLine(line) ==
    \/ StartsWith(line, <<COLON, "return", COLON>>)
    \/ StartsWith(line, <<COLON, "returns", COLON>>)

\* a field list one of whose field names starts with a parameter synonym
IsParamList(node) ==
    /\ node.tag = "field_list"
    /\ \E name \in node.names : \E syn \in PARAM_SYNONYMS : StartsWith(name, <<syn, SP>>)

\* the offset off by one: max(line_no - 3, 0)
AtOf_Off(line_no, buf) ==
    IF line_no = 0 THEN Len(buf)
    ELSE IF line_no - 3 > 0 THEN line_no - 3 ELSE 0

\* max(line_no - 2, 0) if line_no else len(lines)
AtOf(line_no, buf) ==
    IF line_no = 0 THEN Len(buf)
    ELSE IF line_no - 2 > 0 THEN line_no - 2 ELSE 0

\* step 3 without the look at the next sibling: always the end of the buffer
AfterParamList_End(buf, doc, c) == {InsertIndexInfo(Len(buf), TRUE, FALSE, FALSE)}

\* step 3: the parameter list is child c of the document
AfterParamList(buf, doc, c) ==
    IF c < Len(doc)
      THEN {InsertIndexInfo(AtOf(line_no, buf), TRUE, FALSE, FALSE) :
               line_no \in doc[c + 1].line_no}
      ELSE {InsertIndexInfo(Len(buf), TRUE, FALSE, FALSE)}

\* step 4: the children that are no literal block, paragraph or field list
IsDirective(node) == node.tag \notin {"literal_block", "paragraph", "field_list"}

\* steps 3 to 5 on the children of the parsed document
InsertIndexInDoc(buf, doc) ==
    IF \E c \in 1..Len(doc) : IsParamList(doc[c])
      THEN AfterParamList(buf, doc,
               CHOOSE c \in 1..Len(doc) :
                   IsParamList(doc[c]) /\ \A d \in 1..(c - 1) : ~IsParamList(doc[d]))
    ELSE IF \E c \in 1..Len(doc) : IsDirective(doc[c])
      THEN {InsertIndexInfo(AtOf(line_no, buf), FALSE, FALSE, TRUE) :
               line_no \in doc[CHOOSE c \in 1..Len(doc) :
                                  IsDirective(doc[c])
                                  /\ \A d \in 1..(c - 1) : ~IsDirective(doc[d])].line_no}
    ELSE {InsertIndexInfo(Len(buf), FALSE, FALSE, FALSE)}

\* the values get_insert_index may return
get_insert_index(buf) ==
    IF \E i \in 1..Len(buf) : IsRtypeLine(buf[i]) THEN {NoInsertIndex}
    ELSE IF \E i \in 1..Len(buf) : IsReturnLine(buf[i])
      THEN {InsertIndexInfo(
                (CHOOSE i \in 1..Len(buf) :
                    IsReturnLine(buf[i]) /\ \A j \in 1..(i - 1) : ~IsReturnLine(buf[j])) - 1,
                FALSE, TRUE, FALSE)}
    ELSE InsertIndexInDoc(buf, DocChildren(buf))

RtypeLine(annotation) == <<COLON, "rtype", COLON, SP, FormattedAnnotation(annotation)>>

\* line[line.find(' '):]; find returns -1 when the line has no space, and
\* line[-1:] is then its last character (the last token of such a line is
\* one character long)
FromFirstSpace(line) ==
    LET at == IndexFrom(line, SP, 1)
    IN  IF at = 0 THEN SubSeq(line, Len(line), Len(line)) ELSE Slice(line, at)

\* f":return: {formatted_annotation} --{line[line.find(' ') :]}"
ReturnLine(annotation, line) ==
    <<COLON, "return", COLON, SP, FormattedAnnotation(annotation), SP, "--">>
        \o FromFirstSpace(line)

\* the last statements of _inject_rtype without the blank line that
\* follows :rtype: before a directive
InsertOrRewrite_NoBlank(buf, r, typehints_use_rtype, annotation, insert_index) ==
    IF typehints_use_rtype \/ ~r.found_return
      THEN [lines |-> PyInsert(buf, insert_index, RtypeLine(annotation)), did |-> "insert"]
      ELSE [lines |-> PySet(buf, insert_index, ReturnLine(annotation, buf[insert_index + 1])),
            did |-> "rewrite"]

\* the last statements of _inject_rtype: insert the :rtype: line, or
\* rewrite the :return: line
InsertOrRewrite(buf, r, typehints_use_rtype, annotation, insert_index) ==
    IF typehints_use_rtype \/ ~r.found_return
      THEN [lines |-> IF r.found_directive
                        THEN PyInsert(PyInsert(buf, insert_index, RtypeLine(annotation)),
                                      insert_index + 1, <<>>)
                        ELSE PyInsert(buf, insert_index, RtypeLine(annotation)),
            did |-> "insert"]
      ELSE [lines |-> PySet(buf, insert_index, ReturnLine(annotation, buf[insert_index + 1])),
            did |-> "rewrite"]

\* `if insert_index == len(lines) and not r.found_param`
PadEnd(buf, r, typehints_use_rtype, annotation, insert_index) ==
    IF insert_index = Len(buf) /\ ~r.found_param
      THEN InsertOrRewrite(Append(buf, <<>>), r, typehints_use_rtype, annotation,
                           insert_index + 1)
      ELSE InsertOrRewrite(buf, r, typehints_use_rtype, annotation, insert_index)

\* _inject_rtype without the early return on " -- "
RtypeResult_NoKeep(buf, r, typehints_use_rtype, annotation) ==
    IF r = NoInsertIndex THEN [lines |-> buf, did |-> "skip"]
    ELSE PadEnd(buf, r, typehints_use_rtype, annotation,
                IF r.found_param /\ r.insert_index < Len(buf)
                   /\ Stripped(buf[r.insert_index + 1])
                  THEN r.insert_index - 1 ELSE r.insert_index)

\* _inject_rtype once get_insert_index has returned r: the buffer it
\* leaves and what it did
RtypeResult(buf, r, typehints_use_rtype, annotation) ==
    IF r = NoInsertIndex THEN [lines |-> buf, did |-> "skip"]
    ELSE IF ~typehints_use_rtype /\ r.found_return /\ HasDashes(buf[r.insert_index + 1])
      THEN [lines |-> buf, did |-> "keep"]
    ELSE PadEnd(buf, r, typehints_use_rtype, annotation,
                IF r.found_param /\ r.insert_index < Len(buf)
                   /\ Stripped(buf[r.insert_index + 1])
                  THEN r.insert_index - 1 ELSE r.insert_index)

\* the end of the loop of _inject_signature, back in _inject_types_to_docstring
EndSignature ==
    /\ pc = "signature"
    /\ k > Len(params)
    /\ pc' = "rtype"
    /\ UNCHANGED <<lines, orig, params, ret, skipReturn, config, k, ins, insName, synth, rinfo>>
    /\ UNCHANGED <<expression, ann, rendered, func, hints, log, splitArgs>>
    /\ UNCHANGED <<sources, resolved, globalsIds, namespace, stack, executed, calls>>

\* the rest of _inject_types_to_docstring: _inject_rtype when "return" is a key
InjectRtype ==
    /\ pc = "rtype"
    /\ IF ret = "" \/ skipReturn \/ ~config.typehints_document_rtype
         THEN lines' = lines /\ rinfo' = "off"
         ELSE \E r \in get_insert_index(lines) :
                 /\ lines' = RtypeResult(lines, r, config.typehints_use_rtype, ret).lines
                 /\ rinfo' = RtypeResult(lines, r, config.typehints_use_rtype, ret).did
    /\ pc' = "done"
    /\ UNCHANGED <<orig, params, ret, skipReturn, config, k, ins, insName, synth>>
    /\ UNCHANGED <<expression, ann, rendered, func, hints, log, splitArgs>>
    /\ UNCHANGED <<sources, resolved, globalsIds, namespace, stack, executed, calls>>

(***************************************************************************)
(* Docstrings, signatures and configurations the model is run on           *)
(***************************************************************************)

Blank == <<>>
Prose == <<"Text">>
Continuation == <<SP, SP, "more">>
\* f":{keyword} {prefix}{name}: foo"
DocLine(keyword, prefix, name) == <<COLON, keyword, SP>> \o prefix \o name \o <<COLON, SP, "foo">>
ParamX == DocLine("param", <<>>, <<"x">>)
ParamY == DocLine("param", <<>>, <<"y">>)
ReturnPlain == <<COLON, "return", COLON, SP, "desc">>
ReturnsTyped == <<COLON, "returns", COLON, SP, "Custom", SP, "--", SP, "desc">>
ReturnBare == <<COLON, "return", COLON>>
RtypeDoc == <<COLON, "rtype", COLON, SP, "int">>
Rubric == <<".", ".", SP, "rubric", COLON, COLON, SP, "Examples">>

\* the field keywords a parameter of the docstring may be written with
DocKeywords == PARAM_SYNONYMS \cup {"type"}

Parameter(name, annotation, has_default) ==
    [name |-> name, annotation |-> annotation, has_default |-> has_default]

Config(always, defaults, document_rtype, use_rtype) ==
    [always_document_param_types |-> always, typehints_defaults |-> defaults,
     typehints_document_rtype |-> document_rtype, typehints_use_rtype |-> use_rtype]

\* the values of typehints_defaults validate_config accepts
ValidDefaults == {"none", "comma", "braces", "braces-after"}

\* setup(): the default configuration
DefaultConfig == Config(FALSE, "none", TRUE, TRUE)

BoundedSeq(S, n) == UNION {[1..m -> S] : m \in 0..n}

\* process_docstring has computed signature and type_hints and is about to
\* call _inject_types_to_docstring
Start(buf, sig, ret_annotation, skip, cfg) ==
    /\ lines = buf
    /\ orig = buf
    /\ params = sig
    /\ ret = ret_annotation
    /\ skipReturn = skip
    /\ config = cfg
    /\ pc = "signature"
    /\ k = 1
    /\ ins = -1
    /\ insName = <<>>
    /\ synth = FALSE
    /\ rinfo = "none"
    /\ expression = <<>>
    /\ ann = <<>>
    /\ rendered = <<>>
    /\ func = <<>>
    /\ hints = <<>>
    /\ calls = <<>>
    /\ executed = <<>>
    /\ stack = <<>>
    /\ namespace = {}
    /\ globalsIds = {}
    /\ resolved = {}
    /\ sources = <<>>
    /\ splitArgs = <<>>
    /\ log = <<>>

Next == InjectParam \/ EndSignature \/ InjectRtype

\* every configuration, on docstrings with a parameter field, a
\* continuation line, a return field and a directive
Init ==
    \E buf \in BoundedSeq({Blank, Prose, ParamX, Continuation, ReturnPlain, Rubric}, MaxLines),
       sig \in {<<Parameter(<<"x">>, "int", d)>> : d \in BOOLEAN}
                 \cup {<<Parameter(<<"x">>, "bool", FALSE), Parameter(<<"y">>, "int", TRUE)>>},
       ret_annotation \in {"", "str"},
       always \in BOOLEAN, defaults \in ValidDefaults,
       document_rtype \in BOOLEAN, use_rtype \in BOOLEAN :
        Start(buf, sig, ret_annotation, FALSE, Config(always, defaults, document_rtype, use_rtype))

Spec == Init /\ [][Next]_vars

\* the default configuration, on docstrings of up to two documented
\* parameters, for functions and for classes
InitDefault ==
    \E buf \in BoundedSeq({Blank, Prose, ParamX, ParamY, Continuation, Rubric}, MaxLines + 1),
       sig \in {<<Parameter(<<"x">>, "bool", FALSE)>>,
                 <<Parameter(<<"x">>, "bool", FALSE), Parameter(<<"y">>, "int", TRUE)>>,
                 <<Parameter(<<"y">>, "int", FALSE), Parameter(<<"x">>, "", FALSE)>>},
       ret_annotation \in {"", "str"}, skip \in BOOLEAN :
        Start(buf, sig, ret_annotation, skip, DefaultConfig)

SpecDefault == InitDefault /\ [][Next]_vars

\* the ways the docstring may document the parameter x
DocForms ==
    {<<keyword, <<>>>> : keyword \in DocKeywords}
        \cup {<<"param", prefix>> : prefix \in StarPrefixes \cup {<<"*">>}}

\* every configuration of the parameter loop, on docstrings that document
\* x under one keyword and one star prefix, and never document y
InitParams ==
    \E form \in DocForms :
      \E buf \in BoundedSeq({Blank, Prose, Continuation, DocLine(form[1], form[2], <<"x">>)},
                             MaxLines),
         sig \in {<<Parameter(<<"x">>, a, d)>> : a \in {"", "int"}, d \in BOOLEAN}
                   \cup {<<Parameter(<<"x">>, "int", FALSE), Parameter(<<"y">>, "int", FALSE)>>,
                          <<Parameter(<<"y">>, "", FALSE), Parameter(<<"x">>, "int", TRUE)>>},
         always \in BOOLEAN, defaults \in ValidDefaults :
          Start(buf, sig, "str", FALSE, Config(always, defaults, TRUE, TRUE))

SpecParams == InitParams /\ [][Next]_vars

\* the return-type handling, on docstrings with return and rtype fields
InitReturn ==
    \E buf \in BoundedSeq({Blank, Prose, ParamX, Continuation, ReturnPlain, ReturnsTyped,
                            ReturnBare, RtypeDoc, Rubric}, MaxLines),
       mode \in {<<"str", FALSE, TRUE, TRUE>>, <<"str", FALSE, TRUE, FALSE>>,
                  <<"", FALSE, TRUE, TRUE>>, <<"str", TRUE, TRUE, FALSE>>,
                  <<"str", FALSE, FALSE, FALSE>>} :
        Start(buf, <<Parameter(<<"x">>, "int", FALSE)>>, mode[1], mode[2],
              Config(FALSE, "none", mode[3], mode[4]))

SpecReturn == InitReturn /\ [][Next]_vars

\* _inject_rtype called once more, on the buffer its first call has left
InjectRtypeAgain ==
    /\ pc = "done"
    /\ IF ret = "" \/ skipReturn \/ ~config.typehints_document_rtype
         THEN lines' = lines /\ rinfo' = "off"
         ELSE \E r \in get_insert_index(lines) :
                 /\ lines' = RtypeResult(lines, r, config.typehints_use_rtype, ret).lines
                 /\ rinfo' = RtypeResult(lines, r, config.typehints_use_rtype, ret).did
    /\ pc' = "again"
    /\ UNCHANGED <<orig, params, ret, skipReturn, config, k, ins, insName, synth>>
    /\ UNCHANGED <<expression, ann, rendered, func, hints, log, splitArgs>>
    /\ UNCHANGED <<sources, resolved, globalsIds, namespace, stack, executed, calls>>

NextRerun == InjectParam \/ EndSignature \/ InjectRtype \/ InjectRtypeAgain

\* the return-type handling run twice on the docstrings of InitReturn
SpecRerun == InitReturn /\ [][NextRerun]_vars

\* functions without any annotation (type_hints is empty), under every
\* configuration, on docstrings that document x, y or neither
InitUnannotated ==
    \E buf \in BoundedSeq({Blank, Prose, ParamX, ParamY, Continuation}, MaxLines),
       sig \in {<<Parameter(<<"x">>, "", d)>> : d \in BOOLEAN}
                 \cup {<<Parameter(<<"x">>, "", FALSE), Parameter(<<"y">>, "", TRUE)>>},
       always \in BOOLEAN, defaults \in ValidDefaults, use_rtype \in BOOLEAN :
        Start(buf, sig, "", FALSE, Config(always, defaults, TRUE, use_rtype))

SpecUnannotated == InitUnannotated /\ [][Next]_vars

\* lines that hold `:param x:` without beginning with it: a sentence and
\* an indented continuation line
InProse == <<"See", SP, COLON, "param", SP, "x", COLON, SP, "there">>
Indented == <<SP, SP, COLON, "param", SP, "x", COLON, SP, "more">>

\* docstrings whose text mentions the field of x, with or without the
\* field itself
InitProse ==
    \E buf \in BoundedSeq({Blank, Prose, ParamX, InProse, Indented}, MaxLines),
       sig \in {<<Parameter(<<"x">>, "int", d)>> : d \in BOOLEAN},
       always \in BOOLEAN, defaults \in {"none", "comma"} :
        Start(buf, sig, "", FALSE, Config(always, defaults, TRUE, TRUE))

SpecProse == InitProse /\ [][Next]_vars

(***************************************************************************)
(* validate_config, connected to env-before-read-docs: it runs before a    *)
(* document is read, so before the first call of process_docstring.        *)
(* Configuration values are named by strings: "none" is None, "false" and  *)
(* "true" are the booleans, "comma-after" stands for any other string;     *)
(* typehints_formatter is "none", "callable" or "uncallable".              *)
(***************************************************************************)

\* validate_config without the check of typehints_formatter
validate_config_DefaultsOnly(cfg) == cfg.typehints_defaults \notin ValidDefaults \cup {"false"}

\* validate_config raises ValueError
validate_config(cfg) ==
    \/ cfg.typehints_defaults \notin ValidDefaults \cup {"false"}
    \/ cfg.typehints_formatter # "none" /\ cfg.typehints_formatter # "callable"

\* the values conf.py may give to typehints_defaults and typehints_formatter
DefaultsValues == ValidDefaults \cup {"false", "true", "comma-after"}
FormatterValues == {"none", "callable", "uncallable"}

\* the env-before-read-docs event
ValidateConfig ==
    /\ pc = "env-before-read-docs"
    /\ pc' = IF validate_config(config) THEN "ValueError" ELSE "signature"
    /\ UNCHANGED <<lines, orig, params, ret, skipReturn, config, k, ins, insName, synth, rinfo>>
    /\ UNCHANGED <<expression, ann, rendered, func, hints, log, splitArgs>>
    /\ UNCHANGED <<sources, resolved, globalsIds, namespace, stack, executed, calls>>

NextConfig == ValidateConfig \/ InjectParam \/ EndSignature \/ InjectRtype

\* a build: any value of the two validated options, then one docstring
InitConfig ==
    \E buf \in BoundedSeq({Prose, ParamX}, MaxLines - 1),
       defaults \in DefaultsValues, formatter \in FormatterValues,
       always \in BOOLEAN, use_rtype \in BOOLEAN :
        /\ lines = buf
        /\ orig = buf
        /\ params = <<Parameter(<<"x">>, "int", TRUE)>>
        /\ ret = "str"
        /\ skipReturn = FALSE
        /\ config = [always_document_param_types |-> always,
                     typehints_defaults |-> defaults,
                     typehints_document_rtype |-> TRUE,
                     typehints_use_rtype |-> use_rtype,
                     typehints_formatter |-> formatter]
        /\ pc = "env-before-read-docs"
        /\ k = 1
        /\ ins = -1
        /\ insName = <<>>
        /\ synth = FALSE
        /\ rinfo = "none"
        /\ expression = <<>>
        /\ ann = <<>>
        /\ rendered = <<>>
        /\ func = <<>>
        /\ hints = <<>>
        /\ calls = <<>>
        /\ executed = <<>>
        /\ stack = <<>>
        /\ namespace = {}
        /\ globalsIds = {}
        /\ resolved = {}
        /\ sources = <<>>
        /\ splitArgs = <<>>
        /\ log = <<>>

SpecConfig == InitConfig /\ [][NextConfig]_vars

(***************************************************************************)
(* Annotation renderer: format_annotation                                  *)
(*                                                                         *)
(* An annotation object is a record of its runtime class (kind), the name  *)
(* get_annotation_class_name finds for it, and its __args__.  A rendering  *)
(* is a sequence of tokens: a cross reference :py:<role>:`<prefix><name>`  *)
(* is one token, every piece of punctuation the source writes between      *)
(* references is one token with an empty role.  The runtime classes are    *)
(* those of CPython 3.10 to 3.13, where typing.Union[..] builds a          *)
(* _UnionGenericAlias and X | Y builds a types.UnionType.                  *)
(***************************************************************************)

Object(kind, name, args) == [kind |-> kind, name |-> name, args |-> args]

NoneType == Object("NoneType", "None", <<>>)
EllipsisObject == Object("Ellipsis", "Ellipsis", <<>>)

Token(role, prefix, name) == [role |-> role, prefix |-> prefix, name |-> name]
Text(s) == Token("", "", <<s>>)

\* the literal pieces format_annotation writes
NoneRef == Token("obj", "", <<"None">>)
EllipsisRef == Token("data", "", <<"...<Ellipsis>">>)
ESCAPE == Text("\\ ")
OPEN == Text("\\[")
CLOSE == Text("]")
COMMA == Text(", ")
BAR == Text(" | ")

_PYDATA_ANNOTATIONS ==
    {"Any", "AnyStr", "Callable", "ClassVar", "Literal", "NoReturn", "Optional", "Tuple", "Union"}

\* what a configured typehints_formatter returns: None, or a string of its own
FormatterNone == [none |-> TRUE, value |-> <<>>]
FormatterValue(annotation) ==
    [none |-> FALSE, value |-> <<Token("formatter", "", <<annotation.kind, annotation.name>>)>>]

\* the formatters conf.py may set: one that never answers, one that answers
\* for every annotation, one that answers for None, Ellipsis and forward
\* references only, one that answers for plain classes only
Formatters == {"never", "always", "special", "classes"}

typehints_formatter(formatter, annotation) ==
    CASE formatter = "never" -> FormatterNone
      [] formatter = "always" -> FormatterValue(annotation)
      [] formatter = "special" ->
            IF annotation.kind \in {"NoneType", "Ellipsis", "ForwardRef"}
            THEN FormatterValue(annotation) ELSE FormatterNone
      [] formatter = "classes" ->
            IF annotation.kind = "class" THEN FormatterValue(annotation) ELSE FormatterNone

get_annotation_module(annotation) ==
    CASE annotation.kind = "class" -> "builtins"
      [] annotation.kind = "UnionType" -> "types"
      [] OTHER -> "typing"

\* a parametrized typing.Union has no _name unless it is an Optional: its
\* class name is then the one of its __origin__
get_annotation_class_name(annotation, module) ==
    IF annotation.kind = "UnionType" THEN "UnionType" ELSE annotation.name

get_annotation_args(annotation, module, class_name) == annotation.args

\* no typehints_fixup_module_name hook is configured
fixup_module_name(module) ==
    IF module = "typing_extensions" THEN "typing"
    ELSE IF module = "_io" THEN "io"
    ELSE module

RECURSIVE Join(_, _)
Join(fmt, sep) ==
    IF fmt = <<>> THEN <<>>
    ELSE IF Len(fmt) = 1 THEN fmt[1]
    ELSE fmt[1] \o <<sep>> \o Join(Tail(fmt), sep)

\* the arguments with None left among them
WithoutNone_Keep(args) == args

\* tuple(x for x in args if x is not type(None))
WithoutNone(args) == SelectSeq(args, LAMBDA x : x.kind # "NoneType")

\* type(None) in args
HasNone(args) == \E i \in 1..Len(args) : args[i].kind = "NoneType"

RECURSIVE format_annotation(_, _)

FormatEach(args, cfg) == [i \in 1..Len(args) |-> format_annotation(args[i], cfg)]

\* the last lines of format_annotation: the reference, then the arguments
\* in args_format; union_inside is the args_format of an unsimplified
\* optional union
Reference(role, prefix, full_name, union_inside, args, cfg) ==
    <<Token(role, prefix, full_name)>>
    \o (IF args = <<>> THEN <<>>
        ELSE <<ESCAPE, OPEN>>
             \o (IF union_inside THEN <<Token("data", prefix, <<"typing", "Union">>), OPEN>> ELSE <<>>)
             \o Join(FormatEach(args, cfg), COMMA)
             \o <<CLOSE>>
             \o (IF union_inside THEN <<CLOSE>> ELSE <<>>))

\* the special handling with simplify_optional_unions never read: a union
\* with None among three or more arguments always becomes Optional[Union[..]]
OptionalOrUnion_NeverSimplified(role, prefix, full_name, args, cfg) ==
    IF full_name = <<"typing", "Optional">>
    THEN Reference(role, prefix, full_name, FALSE, WithoutNone(args), cfg)
    ELSE IF full_name \in {<<"typing", "Union">>, <<"types", "UnionType">>} /\ HasNone(args)
    THEN Reference("data", prefix, <<"typing", "Optional">>, Len(args) # 2, WithoutNone(args), cfg)
    ELSE Reference(role, prefix, full_name, FALSE, args, cfg)

\* the special handling with the plain args_format for an unsimplified union
OptionalOrUnion_PlainFormat(role, prefix, full_name, args, cfg) ==
    IF full_name = <<"typing", "Optional">>
    THEN Reference(role, prefix, full_name, FALSE, WithoutNone(args), cfg)
    ELSE IF full_name \in {<<"typing", "Union">>, <<"types", "UnionType">>} /\ HasNone(args)
    THEN IF Len(args) = 2 \/ ~cfg.simplify_optional_unions
         THEN Reference("data", prefix, <<"typing", "Optional">>, FALSE, WithoutNone(args), cfg)
         ELSE Reference(role, prefix, full_name, FALSE, args, cfg)
    ELSE Reference(role, prefix, full_name, FALSE, args, cfg)

\* the special handling of Optional and of a Union that has None among its
\* arguments
OptionalOrUnion(role, prefix, full_name, args, cfg) ==
    IF full_name = <<"typing", "Optional">>
    THEN Reference(role, prefix, full_name, FALSE, WithoutNone(args), cfg)
    ELSE IF full_name \in {<<"typing", "Union">>, <<"types", "UnionType">>} /\ HasNone(args)
    THEN IF Len(args) = 2
         THEN Reference("data", prefix, <<"typing", "Optional">>, FALSE, WithoutNone(args), cfg)
         ELSE IF ~cfg.simplify_optional_unions
         THEN Reference("data", prefix, <<"typing", "Optional">>, TRUE, WithoutNone(args), cfg)
         ELSE Reference(role, prefix, full_name, FALSE, args, cfg)
    ELSE Reference(role, prefix, full_name, FALSE, args, cfg)

\* is_bars_union without the always_use_bars_union option
IsBarsUnion_TypesOnly(annotation, full_name, cfg) == full_name = <<"types", "UnionType">>

\* is_bars_union
IsBarsUnion(annotation, full_name, cfg) ==
    \/ full_name = <<"types", "UnionType">>
    \/ cfg.always_use_bars_union /\ annotation.kind = "_UnionGenericAlias"

\* format_annotation once module, class name and arguments are known.  The
\* annotations of the model are no NewType, TypeVar, ParamSpec, Callable or
\* Literal, so those branches are never taken.
Named(annotation, module, class_name, args, cfg) ==
    LET full_name == IF module = "builtins" THEN <<class_name>> ELSE <<module, class_name>>
        prefix == IF cfg.typehints_fully_qualified \/ full_name = <<class_name>> THEN "" ELSE "~"
        role == IF module = "typing" /\ class_name \in _PYDATA_ANNOTATIONS THEN "data" ELSE "class"
    IN  IF IsBarsUnion(annotation, full_name, cfg)
        THEN Join(FormatEach(args, cfg), BAR)
        ELSE OptionalOrUnion(role, prefix, full_name, args, cfg)

\* format_annotation after the formatter declined
BuiltIn(annotation, cfg) ==
    IF annotation.kind = "ForwardRef" THEN <<Text(annotation.name)>>
    ELSE IF annotation.kind = "NoneType" THEN <<NoneRef>>
    ELSE IF annotation.kind = "Ellipsis" THEN <<EllipsisRef>>
    ELSE Named(annotation,
               fixup_module_name(get_annotation_module(annotation)),
               get_annotation_class_name(annotation, get_annotation_module(annotation)),
               get_annotation_args(annotation, get_annotation_module(annotation),
                                   get_annotation_class_name(annotation, get_annotation_module(annotation))),
               cfg)

\* format_annotation with the special cases tried before the formatter
format_annotation_SpecialFirst(annotation, cfg) ==
    IF annotation.kind \in {"ForwardRef", "NoneType", "Ellipsis"}
    THEN BuiltIn(annotation, cfg)
    ELSE IF cfg.typehints_formatter # "none"
            /\ ~typehints_formatter(cfg.typehints_formatter, annotation).none
    THEN typehints_formatter(cfg.typehints_formatter, annotation).value
    ELSE BuiltIn(annotation, cfg)

format_annotation(annotation, cfg) ==
    IF cfg.typehints_formatter # "none"
       /\ ~typehints_formatter(cfg.typehints_formatter, annotation).none
    THEN typehints_formatter(cfg.typehints_formatter, annotation).value
    ELSE BuiltIn(annotation, cfg)

(***************************************************************************)
(* The annotation objects the typing runtime builds from an annotation     *)
(* expression, as the expected strings of test_format_annotation and       *)
(* test_always_use_bars_union show them: a union is flattened, loses its   *)
(* duplicate members, is its only member when one is left, and is named    *)
(* Optional when it has two members and one of them is None.               *)
(***************************************************************************)

Expr(op, name, args) == [op |-> op, name |-> name, args |-> args]

Name(n) == Expr("name", n, <<>>)
NoneExpr == Expr("None", "None", <<>>)
EllipsisExpr == Expr("Ellipsis", "Ellipsis", <<>>)
ForwardRefExpr(n) == Expr("ForwardRef", n, <<>>)
OptionalOf(e) == Expr("Optional", "Optional", <<e>>)
UnionOf(es) == Expr("Union", "Union", es)
ListOf(e) == Expr("List", "List", <<e>>)
TupleOf(e) == Expr("Tuple", "Tuple", <<e, EllipsisExpr>>)
OrOf(e1, e2) == Expr("|", "|", <<e1, e2>>)

IsUnion(x) == x.kind \in {"_UnionGenericAlias", "UnionType"}

\* the members of the parameters of a union, nested unions opened
RECURSIVE Flatten(_)
Flatten(parameters) ==
    IF parameters = <<>> THEN <<>>
    ELSE (IF IsUnion(parameters[1]) THEN parameters[1].args ELSE <<parameters[1]>>)
         \o Flatten(Tail(parameters))

\* the first occurrence of every member, in order
RECURSIVE Deduplicate(_, _)
Deduplicate(members, seen) ==
    IF members = <<>> THEN <<>>
    ELSE IF members[1] \in seen THEN Deduplicate(Tail(members), seen)
    ELSE <<members[1]>> \o Deduplicate(Tail(members), seen \cup {members[1]})

\* typing.Union[parameters]
UnionAlias(members) ==
    IF Len(members) = 1 THEN members[1]
    ELSE Object("_UnionGenericAlias",
                IF Len(members) = 2 /\ HasNone(members) THEN "Optional" ELSE "Union",
                members)

\* X | Y of two classes, None or X | Y unions; any other operand makes it a
\* typing.Union
UnionType(members) ==
    IF Len(members) = 1 THEN members[1] ELSE Object("UnionType", "UnionType", members)

Or(x, y) ==
    IF {x.kind, y.kind} \subseteq {"class", "NoneType", "UnionType"}
    THEN UnionType(Deduplicate(Flatten(<<x, y>>), {}))
    ELSE UnionAlias(Deduplicate(Flatten(<<x, y>>), {}))

RECURSIVE Evaluate(_)

EvaluateEach(es) == [i \in 1..Len(es) |-> Evaluate(es[i])]

Evaluate(e) ==
    CASE e.op = "name" -> Object("class", e.name, <<>>)
      [] e.op = "None" -> NoneType
      [] e.op = "Ellipsis" -> EllipsisObject
      [] e.op = "ForwardRef" -> Object("ForwardRef", e.name, <<>>)
      [] e.op = "Optional" -> UnionAlias(Deduplicate(Flatten(<<Evaluate(e.args[1]), NoneType>>), {}))
      [] e.op = "Union" -> UnionAlias(Deduplicate(Flatten(EvaluateEach(e.args)), {}))
      [] e.op \in {"List", "Tuple"} -> Object("_GenericAlias", e.op, EvaluateEach(e.args))
      [] e.op = "|" -> Or(Evaluate(e.args[1]), Evaluate(e.args[2]))

\* Deepest nesting of the annotation expressions.
MaxNesting == 2

Leaves == {Name("int"), Name("str"), NoneExpr, ForwardRefExpr("Foo")}

\* None | None is a TypeError
RECURSIVE Expressions(_)
Expressions(n) ==
    IF n = 0 THEN Leaves
    ELSE Expressions(n - 1)
         \cup {OptionalOf(e) : e \in Expressions(n - 1)}
         \cup {ListOf(e) : e \in Expressions(n - 1)}
         \cup {TupleOf(e) : e \in Expressions(n - 1)}
         \cup {UnionOf(<<e, l>>) : e \in Expressions(n - 1), l \in Leaves}
         \cup {UnionOf(<<l, e>>) : e \in Expressions(n - 1), l \in Leaves}
         \cup {OrOf(p[1], p[2]) : p \in {q \in Expressions(n - 1) \X Leaves :
                                            q[2] # NoneExpr \/ Evaluate(q[1]) # NoneType}}

RenderConfig(formatter, simplify, bars, qualified) ==
    [typehints_formatter |-> formatter,
     simplify_optional_unions |-> simplify,
     always_use_bars_union |-> bars,
     typehints_fully_qualified |-> qualified]

\* the typing runtime evaluates the annotation expression
EvaluateAnnotation ==
    /\ pc = "expression"
    /\ ann' = Evaluate(expression)
    /\ pc' = "annotation"
    /\ UNCHANGED <<lines, orig, params, ret, skipReturn, config, k, ins, insName, synth, rinfo>>
    /\ UNCHANGED <<expression, rendered, func, hints, log, splitArgs>>
    /\ UNCHANGED <<sources, resolved, globalsIds, namespace, stack, executed, calls>>

\* format_annotation(annotation, config)
FormatAnnotation ==
    /\ pc = "annotation"
    /\ rendered' = format_annotation(ann, config)
    /\ pc' = "formatted"
    /\ UNCHANGED <<lines, orig, params, ret, skipReturn, config, k, ins, insName, synth, rinfo>>
    /\ UNCHANGED <<expression, ann, func, hints, log, splitArgs>>
    /\ UNCHANGED <<sources, resolved, globalsIds, namespace, stack, executed, calls>>

NextFormat == EvaluateAnnotation \/ FormatAnnotation

\* one annotation expression under one rendering configuration
InitFormat ==
    \E e \in Expressions(MaxNesting),
       formatter \in {"none"} \cup Formatters,
       simplify \in BOOLEAN, bars \in BOOLEAN, qualified \in BOOLEAN :
        /\ expression = e
        /\ config = RenderConfig(formatter, simplify, bars, qualified)
        /\ pc = "expression"
        /\ ann = <<>>
        /\ rendered = <<>>
        /\ lines = <<>>
        /\ orig = <<>>
        /\ params = <<>>
        /\ ret = ""
        /\ skipReturn = FALSE
        /\ k = 1
        /\ ins = -1
        /\ insName = <<>>
        /\ synth = FALSE
        /\ rinfo = "none"
        /\ func = <<>>
        /\ hints = <<>>
        /\ calls = <<>>
        /\ executed = <<>>
        /\ stack = <<>>
        /\ namespace = {}
        /\ globalsIds = {}
        /\ resolved = {}
        /\ sources = <<>>
        /\ splitArgs = <<>>
        /\ log = <<>>

SpecFormat == InitFormat /\ [][NextFormat]_vars

(***************************************************************************)
(* Type comments: backfill_type_hints                                      *)
(*                                                                         *)
(* A type comment is a sequence of tokens, as a docstring line is; the     *)
(* text " -> " is one token, a bracket, a comma, a star and a space are    *)
(* one token each.  The function definition is the ast.FunctionDef: its    *)
(* argument names by kind ("" for an absent *vararg or **kwarg) and its    *)
(* type_comment.                                                           *)
(***************************************************************************)

ARROW == " -> "
LPAREN == "("
RPAREN == ")"
LBRACKET == "["
RBRACKET == "]"
COMMACHAR == ","
STAR == "*"

FunctionDef(posonlyargs, args, vararg, kwonlyargs, kwarg, type_comment) ==
    [posonlyargs |-> posonlyargs, args |-> args, vararg |-> vararg,
     kwonlyargs |-> kwonlyargs, kwarg |-> kwarg, type_comment |-> type_comment]

\* load_args with kinds in another order: keyword-only arguments before *vararg
load_args_KeywordsFirst(obj_ast) ==
    obj_ast.posonlyargs \o obj_ast.args \o obj_ast.kwonlyargs
    \o (IF obj_ast.vararg # "" THEN <<obj_ast.vararg>> ELSE <<>>)
    \o (IF obj_ast.kwarg # "" THEN <<obj_ast.kwarg>> ELSE <<>>)

load_args(obj_ast) ==
    obj_ast.posonlyargs \o obj_ast.args
    \o (IF obj_ast.vararg # "" THEN <<obj_ast.vararg>> ELSE <<>>)
    \o obj_ast.kwonlyargs
    \o (IF obj_ast.kwarg # "" THEN <<obj_ast.kwarg>> ELSE <<>>)

\* str.strip, str.lstrip(c), str.rstrip(c) on tokens
RECURSIVE LStripToken(_, _)
LStripToken(text, c) ==
    IF text # <<>> /\ text[1] = c THEN LStripToken(Tail(text), c) ELSE text

RECURSIVE RStripToken(_, _)
RStripToken(text, c) ==
    IF text # <<>> /\ text[Len(text)] = c
    THEN RStripToken(SubSeq(text, 1, Len(text) - 1), c) ELSE text

StripSpaces(text) == RStripToken(LStripToken(text, SP), SP)

\* add(val): val.strip().lstrip("*")
StripArg(val) == LStripToken(StripSpaces(val), STAR)

\* the loop of split_type_comment_args from token at on: the arguments found,
\* given the bracket depth and the start of the argument being read
RECURSIVE SplitFrom(_, _, _, _)
SplitFrom(comment, at, brackets, start_arg_at) ==
    IF at > Len(comment)
    THEN <<StripArg(SubSeq(comment, start_arg_at, Len(comment)))>>
    ELSE IF comment[at] \in {LBRACKET, LPAREN}
    THEN SplitFrom(comment, at + 1, brackets + 1, start_arg_at)
    ELSE IF comment[at] \in {RBRACKET, RPAREN}
    THEN SplitFrom(comment, at + 1, brackets - 1, start_arg_at)
    ELSE IF comment[at] = COMMACHAR /\ brackets = 0
    THEN <<StripArg(SubSeq(comment, start_arg_at, at - 1))>>
         \o SplitFrom(comment, at + 1, brackets, at + 1)
    ELSE SplitFrom(comment, at + 1, brackets, start_arg_at)

\* comment.strip().lstrip("(").rstrip(")")
Unparenthesized(comment) == RStripToken(LStripToken(StripSpaces(comment), LPAREN), RPAREN)

split_type_comment_args(comment) ==
    IF Unparenthesized(comment) = <<>> THEN <<>>
    ELSE SplitFrom(Unparenthesized(comment), 1, 0, 1)

\* type_comment.split(" -> ")
ArrowsAt(type_comment) == {i \in 1..Len(type_comment) : type_comment[i] = ARROW}
ArrowAt(type_comment) == CHOOSE i \in ArrowsAt(type_comment) : TRUE

\* the loop `for at, arg in enumerate(args)` from index at on; None stands
\* for the blank inserted for an omitted self or cls
NoComment == <<"None-inserted">>

RECURSIVE Pair(_, _, _, _)
Pair(args, comment_args, at, rv) ==
    IF at > Len(args) THEN rv
    ELSE IF comment_args[at] = NoComment
    THEN Pair(args, comment_args, at + 1, rv)
    ELSE Pair(args, comment_args, at + 1,
              [key \in DOMAIN rv \cup {args[at]} |->
                  IF key = args[at] THEN comment_args[at] ELSE rv[key]])

\* rv after `if comment_returns: rv["return"] = comment_returns`
Returns(comment_returns) ==
    [key \in (IF comment_returns # <<>> THEN {"return"} ELSE {}) |-> comment_returns]

\* self/cls may be omitted in type comments, insert blank
WithSelf(args, comment_args) ==
    IF args # <<>> /\ args[1] \in {"self", "cls"} /\ Len(comment_args) # Len(args)
    THEN <<NoComment>> \o comment_args
    ELSE comment_args

\* the loop run although the comment lists fewer types than there are
\* arguments: the arguments the comment reaches are paired
Backfilled_PairsPrefix(args, comment_args, comment_returns) ==
    IF comment_args = <<<<"...">>>>
    THEN Returns(comment_returns)
    ELSE IF Len(args) > Len(WithSelf(args, comment_args))
    THEN Pair(SubSeq(args, 1, Len(WithSelf(args, comment_args))),
              WithSelf(args, comment_args), 1, Returns(comment_returns))
    ELSE Pair(args, WithSelf(args, comment_args), 1, Returns(comment_returns))

\* backfill_type_hints from `rv = {}` on.  With the inline form `(...)` the
\* types are the type comments of the arguments, which the functions of the
\* model do not carry.
Backfilled(args, comment_args, comment_returns) ==
    IF comment_args = <<<<"...">>>>
    THEN Returns(comment_returns)
    ELSE IF Len(args) # Len(WithSelf(args, comment_args))
    THEN Returns(comment_returns)
    ELSE Pair(args, WithSelf(args, comment_args), 1, Returns(comment_returns))

\* an empty map is <<>>
backfill_type_hints(obj_ast) ==
    IF obj_ast.type_comment = <<>> THEN <<>>
    ELSE IF Cardinality(ArrowsAt(obj_ast.type_comment)) # 1 THEN <<>>
    ELSE Backfilled(load_args(obj_ast),
                    split_type_comment_args(
                        SubSeq(obj_ast.type_comment, 1, ArrowAt(obj_ast.type_comment) - 1)),
                    SubSeq(obj_ast.type_comment, ArrowAt(obj_ast.type_comment) + 1,
                           Len(obj_ast.type_comment)))

\* the return value of the call split_type_comment_args(comment_args_str);
\* <<>> when backfill_type_hints returns before the call
SplitOf(obj_ast) ==
    IF obj_ast.type_comment = <<>> THEN <<>>
    ELSE IF Cardinality(ArrowsAt(obj_ast.type_comment)) # 1 THEN <<>>
    ELSE split_type_comment_args(
             SubSeq(obj_ast.type_comment, 1, ArrowAt(obj_ast.type_comment) - 1))

\* the messages of the warnings
NOT_ENOUGH == "Not enough type comments found"
UNPARSEABLE == "Unparseable type hint comment"

\* the warning of the count check: `if len(args) != len(comment_args)`
CountWarnings(args, comment_args) ==
    IF comment_args # <<<<"...">>>> /\ Len(args) # Len(WithSelf(args, comment_args))
    THEN <<NOT_ENOUGH>> ELSE <<>>

\* what backfill_type_hints logs
BackfillWarnings(obj_ast) ==
    IF obj_ast.type_comment = <<>> THEN <<>>
    ELSE IF Cardinality(ArrowsAt(obj_ast.type_comment)) # 1 THEN <<UNPARSEABLE>>
    ELSE CountWarnings(load_args(obj_ast),
                       split_type_comment_args(
                           SubSeq(obj_ast.type_comment, 1, ArrowAt(obj_ast.type_comment) - 1)))

\* Largest number of types a type comment lists.
MaxCommentTypes == 5

\* the types written in the comments, the second with a comma inside brackets
CommentTypes == {<<"int">>, <<"Union", LBRACKET, "str", COMMACHAR, SP, "None", RBRACKET>>}

\* the argument list of a type comment: `(T1, T2, ..)`; the type of the
\* *vararg carries one star and the one of the **kwarg two when the comment
\* lists one type for each argument
Stars(obj_ast, types, at) ==
    IF Len(types) # Len(load_args(obj_ast)) THEN <<>>
    ELSE IF load_args(obj_ast)[at] = obj_ast.vararg THEN <<STAR>>
    ELSE IF load_args(obj_ast)[at] = obj_ast.kwarg THEN <<STAR, STAR>>
    ELSE <<>>

RECURSIVE CommentArgs(_, _, _)
CommentArgs(obj_ast, types, at) ==
    IF at > Len(types) THEN <<>>
    ELSE (IF at > 1 THEN <<COMMACHAR, SP>> ELSE <<>>)
         \o Stars(obj_ast, types, at) \o types[at]
         \o CommentArgs(obj_ast, types, at + 1)

TypeComment(obj_ast, types, returns) ==
    <<LPAREN>> \o CommentArgs(obj_ast, types, 1) \o <<RPAREN, ARROW>> \o returns

\* the functions: every kind of argument present or absent, self first or not
Functions ==
    {FunctionDef(posonlyargs, args, vararg, kwonlyargs, kwarg, <<>>) :
        posonlyargs \in {<<>>, <<"p">>},
        args \in {<<>>, <<"x">>, <<"self", "x">>},
        vararg \in {"", "v"},
        kwonlyargs \in {<<>>, <<"k">>},
        kwarg \in {"", "kw"}}

\* the return types written in the comments; the last is a comment that
\* ends with the arrow
CommentReturns == {<<"bool">>, <<"None">>, <<>>}

\* type comments with parentheses inside the argument list:
\* `(Dict[(str, int)], bool) -> None`, `(bool, (int, str)) -> None` and
\* `((int), str) -> None`
Parenthesized ==
    {<<LPAREN, "Dict", LBRACKET, LPAREN, "str", COMMACHAR, SP, "int", RPAREN, RBRACKET,
       COMMACHAR, SP, "bool", RPAREN, ARROW, "None">>,
     <<LPAREN, "bool", COMMACHAR, SP, LPAREN, "int", COMMACHAR, SP, "str", RPAREN, RPAREN,
       ARROW, "None">>,
     <<LPAREN, LPAREN, "int", RPAREN, COMMACHAR, SP, "str", RPAREN, ARROW, "None">>}

\* the type comments of a function: none, the inline form, one without the
\* arrow, the ones with parentheses inside, and `(T1, .., Tn) -> R` for up to
\* MaxCommentTypes types
TypeComments(obj_ast) ==
    {<<>>, <<LPAREN, "...", RPAREN, ARROW, "bool">>, <<LPAREN, "int", RPAREN>>}
    \cup Parenthesized
    \cup {TypeComment(obj_ast, types, returns) :
            types \in BoundedSeq(CommentTypes, MaxCommentTypes),
            returns \in CommentReturns}

\* backfill_type_hints(obj, name)
BackfillTypeHints ==
    /\ pc = "backfill"
    /\ hints' = backfill_type_hints(func)
    /\ log' = log \o BackfillWarnings(func)
    /\ splitArgs' = SplitOf(func)
    /\ pc' = "backfilled"
    /\ UNCHANGED <<lines, orig, params, ret, skipReturn, config, k, ins, insName, synth, rinfo>>
    /\ UNCHANGED <<expression, ann, rendered, func>>
    /\ UNCHANGED <<sources, resolved, globalsIds, namespace, stack, executed, calls>>

NextBackfill == BackfillTypeHints

\* a function without annotations and its type comment
InitBackfill ==
    \E obj_ast \in Functions : \E type_comment \in TypeComments(obj_ast) :
        /\ func = [obj_ast EXCEPT !.type_comment = type_comment]
        /\ hints = <<>>
        /\ calls = <<>>
        /\ executed = <<>>
        /\ stack = <<>>
        /\ namespace = {}
        /\ globalsIds = {}
        /\ resolved = {}
        /\ sources = <<>>
        /\ splitArgs = <<>>
        /\ log = <<>>
        /\ pc = "backfill"
        /\ config = DefaultConfig
        /\ lines = <<>>
        /\ orig = <<>>
        /\ params = <<>>
        /\ ret = ""
        /\ skipReturn = FALSE
        /\ k = 1
        /\ ins = -1
        /\ insName = <<>>
        /\ synth = FALSE
        /\ rinfo = "none"
        /\ expression = <<>>
        /\ ann = <<>>
        /\ rendered = <<>>

SpecBackfill == InitBackfill /\ [][NextBackfill]_vars

(***************************************************************************)
(* Guarded imports: _resolve_type_guarded_imports and                      *)
(* _execute_guarded_code                                                   *)
(*                                                                         *)
(* A module is known by its name; its source is the sequence of its        *)
(* `if TYPE_CHECKING:` blocks, in the order _TYPE_GUARD_IMPORT_RE finds    *)
(* them.  A block is one of                                                *)
(*   define    an import that succeeds and binds the name the module       *)
(*             exports to other guard blocks,                              *)
(*   guarded   `from M import Name`, Name being bound by a guard block of M *)
(*             (tests/roots/test-resolve-typing-guard/demo_typing_guard.py, *)
(*             `from demo_typing_guard_dummy import Literal`),             *)
(*   missing   `from M import missing`, a name M never has                 *)
(*             (`from functools import missing` in the same file),         *)
(*   absent    `import M` for a module that cannot be imported,            *)
(*   relative  a relative import in a top-level module: Python raises an   *)
(*             ImportError whose name is None,                             *)
(*   raise     code that raises an exception that is no ImportError.       *)
(* The two functions call each other; the calls in progress are the frames *)
(* of stack, each with the module, the kind of obj (a function of the      *)
(* module, or the module itself), the block the loop is at and whether the *)
(* block waits to be retried.  Python ends a recursion that is too deep    *)
(* with RecursionError.                                                    *)
(***************************************************************************)

\* The modules of the build that have guard blocks.
Modules == {"a", "b"}

\* Most guard blocks in the source of module a (module b has at most one).
MaxBlocks == 2

\* Most callables handed to _resolve_type_guarded_imports in one build.
MaxCalls == 2

\* Deepest nesting of _resolve_type_guarded_imports before Python raises
\* RecursionError (sys.getrecursionlimit(), scaled down).
RecursionLimit == 4

Block(kind, module) == [kind |-> kind, module |-> module]

GuardBlocks ==
    {Block("define", ""), Block("relative", ""), Block("raise", ""), Block("absent", "absent")}
    \cup {Block(kind, module) : kind \in {"guarded", "missing"}, module \in Modules}

\* an exception: its class and, for an ImportError, its name attribute
\* ("" for None)
Raised(class, name) == [class |-> class, name |-> name]
NotRaised == Raised("", "")

\* exec(guarded_code, globals) with the names bound so far
Exec(block, bound) ==
    IF block.kind = "define" THEN NotRaised
    ELSE IF block.kind = "guarded"
      THEN IF block.module \in bound THEN NotRaised ELSE Raised("ImportError", block.module)
    ELSE IF block.kind = "missing" THEN Raised("ImportError", block.module)
    ELSE IF block.kind = "absent" THEN Raised("ImportError", block.module)
    ELSE IF block.kind = "relative" THEN Raised("ImportError", "")
    ELSE Raised("Exception", "")

\* the globals after a run of the block that raised nothing: the module
\* that ran the import now has the name itself
Bind(block, module, bound) ==
    IF block.kind \in {"define", "guarded"} THEN bound \cup {module} ELSE bound

\* the message of _LOGGER.warning in _execute_guarded_code
FAILED_GUARDED_IMPORT == "Failed guarded type import"

\* every object resolved again, whatever the registry holds
_should_skip_guarded_import_resolution_Never(obj, module, registry) == FALSE

\* _should_skip_guarded_import_resolution for a module object and for a
\* function (which has __globals__ and __module__)
_should_skip_guarded_import_resolution(obj, module, registry) ==
    IF obj = "module" THEN FALSE ELSE module \in registry

Frame(module, obj) == [module |-> module, obj |-> obj, at |-> 1, retry |-> FALSE]

Top(frames) == frames[Len(frames)]

\* the block the loop of the innermost call is at
BlockAt(code, frames) == code[Top(frames).module][Top(frames).at]

\* the loop of the innermost call moves to its next block
Advance(frames) ==
    [frames EXCEPT ![Len(frames)] = [@ EXCEPT !.at = @ + 1, !.retry = FALSE]]

\* the innermost call waits for the retry of its block while obj is resolved
Recurse(frames, module) ==
    Append([frames EXCEPT ![Len(frames)] = [@ EXCEPT !.retry = TRUE]], Frame(module, "module"))

\* one more run of the block the innermost call is at
Ran(counts, frames) ==
    [counts EXCEPT ![Top(frames).module] = [@ EXCEPT ![Top(frames).at] = @ + 1]]

\* process_docstring or process_signature resolves a callable: a function
\* of the module
ResolveCallable ==
    /\ stack = <<>>
    /\ Len(calls) < MaxCalls
    /\ \E module \in Modules :
          /\ calls' = Append(calls, module)
          /\ IF _should_skip_guarded_import_resolution("function", module, resolved)
               THEN UNCHANGED <<resolved, globalsIds, stack>>
               ELSE /\ globalsIds' = globalsIds \cup {module}
                    /\ resolved' = resolved \cup {module}
                    /\ stack' = <<Frame(module, "function")>>
    /\ UNCHANGED <<sources, namespace, executed, log>>
    /\ UNCHANGED <<lines, orig, params, ret, skipReturn, config, pc, k, ins, insName, synth, rinfo>>
    /\ UNCHANGED <<expression, ann, rendered, func, hints, splitArgs>>

\* the except clauses of _execute_guarded_code for the exception exc of the
\* first run of a block
Except(block, exc) ==
    IF exc.class = "ImportError" /\ exc.name = ""
      THEN /\ stack' = Advance(stack)
           /\ UNCHANGED <<log, resolved>>
    ELSE IF exc.class = "ImportError" /\ exc.name \in Modules /\ Len(stack) < RecursionLimit
      THEN /\ stack' = Recurse(stack, exc.name)
           /\ resolved' = resolved \cup {exc.name}
           /\ UNCHANGED log
    ELSE /\ stack' = Advance(stack)
         /\ log' = Append(log, FAILED_GUARDED_IMPORT)
         /\ UNCHANGED resolved

\* the loop of _execute_guarded_code runs the block it is at
ExecuteGuardedCode ==
    /\ stack # <<>>
    /\ ~Top(stack).retry
    /\ Top(stack).at <= Len(sources[Top(stack).module])
    /\ executed' = Ran(executed, stack)
    /\ IF Exec(BlockAt(sources, stack), namespace) = NotRaised
         THEN /\ namespace' = Bind(BlockAt(sources, stack), Top(stack).module, namespace)
              /\ stack' = Advance(stack)
              /\ UNCHANGED <<log, resolved>>
         ELSE /\ Except(BlockAt(sources, stack), Exec(BlockAt(sources, stack), namespace))
              /\ UNCHANGED namespace
    /\ UNCHANGED <<sources, globalsIds, calls>>
    /\ UNCHANGED <<lines, orig, params, ret, skipReturn, config, pc, k, ins, insName, synth, rinfo>>
    /\ UNCHANGED <<expression, ann, rendered, func, hints, splitArgs>>

\* the failing module has been resolved: the guarded code is retried
RetryGuardedCode ==
    /\ stack # <<>>
    /\ Top(stack).retry
    /\ executed' = Ran(executed, stack)
    /\ stack' = Advance(stack)
    /\ IF Exec(BlockAt(sources, stack), namespace) = NotRaised
         THEN /\ namespace' = Bind(BlockAt(sources, stack), Top(stack).module, namespace)
              /\ UNCHANGED log
         ELSE /\ log' = Append(log, FAILED_GUARDED_IMPORT)
              /\ UNCHANGED namespace
    /\ UNCHANGED <<sources, resolved, globalsIds, calls>>
    /\ UNCHANGED <<lines, orig, params, ret, skipReturn, config, pc, k, ins, insName, synth, rinfo>>
    /\ UNCHANGED <<expression, ann, rendered, func, hints, splitArgs>>

\* the loop has run out of blocks: _resolve_type_guarded_imports returns
ReturnResolved ==
    /\ stack # <<>>
    /\ ~Top(stack).retry
    /\ Top(stack).at > Len(sources[Top(stack).module])
    /\ stack' = SubSeq(stack, 1, Len(stack) - 1)
    /\ UNCHANGED <<sources, resolved, globalsIds, namespace, executed, calls, log>>
    /\ UNCHANGED <<lines, orig, params, ret, skipReturn, config, pc, k, ins, insName, synth, rinfo>>
    /\ UNCHANGED <<expression, ann, rendered, func, hints, splitArgs>>

NextGuard == ResolveCallable \/ ExecuteGuardedCode \/ RetryGuardedCode \/ ReturnResolved

\* the start of a build: nothing resolved, every module with its source
InitGuard ==
    \E code_a \in BoundedSeq(GuardBlocks, MaxBlocks), code_b \in BoundedSeq(GuardBlocks, 1) :
        /\ sources = [module \in Modules |-> IF module = "a" THEN code_a ELSE code_b]
        /\ executed = [module \in Modules |->
                          [at \in 1..Len(IF module = "a" THEN code_a ELSE code_b) |-> 0]]
        /\ resolved = {}
        /\ globalsIds = {}
        /\ namespace = {}
        /\ stack = <<>>
        /\ calls = <<>>
        /\ log = <<>>
        /\ pc = "build"
        /\ config = DefaultConfig
        /\ lines = <<>>
        /\ orig = <<>>
        /\ params = <<>>
        /\ ret = ""
        /\ skipReturn = FALSE
        /\ k = 1
        /\ ins = -1
        /\ insName = <<>>
        /\ synth = FALSE
        /\ rinfo = "none"
        /\ expression = <<>>
        /\ ann = <<>>
        /\ rendered = <<>>
        /\ func = <<>>
        /\ hints = <<>>
        /\ splitArgs = <<>>

SpecGuard == InitGuard /\ [][NextGuard]_vars

(***************************************************************************)
(* Notions the claims are stated with                                      *)
(***************************************************************************)

\* the line is the field `:<keyword> <name>:` with some description
IsFieldOf(line, keyword, name) == StartsWith(line, <<COLON, keyword, SP>> \o name \o <<COLON>>)

\* the line `:type <name>: <rendered type>`
TypeFieldLine(name, annotation) ==
    <<COLON, "type", SP>> \o name \o <<COLON, SP, "<" \o annotation \o ">">>

\* the line `:rtype: <rendered type>`
RtypeFieldLine(annotation) == <<COLON, "rtype", COLON, SP, "<" \o annotation \o ">">>

\* the first tokens of a return-type field and of a return-description field
IsRtypeField(line) ==
    Len(line) >= 3 /\ line[1] = COLON /\ line[2] = "rtype" /\ line[3] = COLON
HasRtypeField(buf) == \E i \in 1..Len(buf) : IsRtypeField(buf[i])
IsReturnField(line) ==
    Len(line) >= 3 /\ line[1] = COLON /\ line[2] \in {"return", "returns"} /\ line[3] = COLON
HasReturnField(buf) == \E i \in 1..Len(buf) : IsReturnField(buf[i])

\* the positions of buf that hold a line satisfying Test
Positions(buf, Test(_)) == {i \in 1..Len(buf) : Test(buf[i])}

Min(S) == CHOOSE x \in S : \A y \in S : x <= y
Max(S) == CHOOSE x \in S : \A y \in S : x >= y

\* small is an order-preserving subsequence of big
RECURSIVE IsSubsequence(_, _)
IsSubsequence(small, big) ==
    IF small = <<>> THEN TRUE
    ELSE IF big = <<>> THEN FALSE
    ELSE IF Head(small) = Head(big) THEN IsSubsequence(Tail(small), Tail(big))
    ELSE IsSubsequence(small, Tail(big))

\* buf with x inserted so that it becomes the line at 1-based position j
InsertedAt(buf, j, x) == SubSeq(buf, 1, j - 1) \o <<x>> \o SubSeq(buf, j, Len(buf))

(***************************************************************************)
(* C1                                                                      *)
(***************************************************************************)

\* the `:param` lines of the buffer that document a parameter of sig
ParamLinesOf(buf, sig) ==
    {i \in 1..Len(buf) : \E n \in 1..Len(sig) : IsFieldOf(buf[i], "param", sig[n].name)}

\* buf with `:type <name>: <type>` put right before the `:param` line of
\* each parameter of sig
RECURSIVE WithTypes(_, _)
WithTypes(buf, sig) ==
    IF buf = <<>> THEN <<>>
    ELSE (IF \E n \in 1..Len(sig) : IsFieldOf(Head(buf), "param", sig[n].name)
            THEN <<TypeFieldLine(
                     sig[CHOOSE n \in 1..Len(sig) : IsFieldOf(Head(buf), "param", sig[n].name)].name,
                     sig[CHOOSE n \in 1..Len(sig) : IsFieldOf(Head(buf), "param", sig[n].name)].annotation)>>
            ELSE <<>>)
         \o <<Head(buf)>> \o WithTypes(Tail(buf), sig)

\* a function with a return annotation, all of whose parameters are
\* annotated and documented by exactly one field line, `:param <name>:`,
\* in a docstring without return fields, processed to the end under the
\* default configuration
C1_Case ==
    /\ pc = "done"
    /\ config = DefaultConfig
    /\ ~skipReturn
    /\ ret # ""
    /\ Len(params) >= 1
    /\ \A n \in 1..Len(params) :
          /\ params[n].annotation # ""
          /\ Cardinality({i \in 1..Len(orig) :
                             _line_is_param_line_for_arg(orig[i], params[n].name)}) = 1
          /\ \E i \in 1..Len(orig) : IsFieldOf(orig[i], "param", params[n].name)
    /\ ~HasRtypeField(orig)
    /\ ~HasReturnField(orig)

\* the result is the original buffer plus the :type lines plus one :rtype:
\* line somewhere after the last :param line
C1_Result ==
    \E j \in (Max(ParamLinesOf(WithTypes(orig, params), params)) + 1)
                ..(Len(WithTypes(orig, params)) + 1) :
        lines = InsertedAt(WithTypes(orig, params), j, RtypeFieldLine(ret))

\* the field lines of the docstring form one field list: it starts the
\* buffer or follows a blank line, holds every :param line, and is followed
\* by a blank line or by the end of the buffer
C1_OneFieldList ==
    /\ Positions(orig, LAMBDA l : LineKind(l) = "field") # {}
    /\ Min(Positions(orig, LAMBDA l : LineKind(l) = "field")) > 1
          => LineKind(orig[Min(Positions(orig, LAMBDA l : LineKind(l) = "field")) - 1]) = "blank"
    /\ \A h \in Min(Positions(orig, LAMBDA l : LineKind(l) = "field"))
                   ..Max(ParamLinesOf(orig, params)) :
          LineKind(orig[h]) \in {"field", "indent", "blank"}
    /\ NextOfKind(orig, Max(ParamLinesOf(orig, params)), {"text", "directive"}) <= Len(orig)
          => LineKind(orig[NextOfKind(orig, Max(ParamLinesOf(orig, params)),
                                      {"text", "directive"}) - 1]) = "blank"

\* C1 as stated: for a function whose parameters are all annotated and
\* each documented by exactly one `:param <name>:` line, with a return
\* annotation and no return field, the default configuration yields the
\* original buffer plus one :type line right before each :param line and
\* one :rtype: line after the last :param line
C1_Original == C1_Case => C1_Result

\* C1 (amended): the same, provided the field lines of the docstring form
\* one top-level field list that is followed by a blank line or ends the
\* buffer
C1_Spliced == (C1_Case /\ C1_OneFieldList) => C1_Result

\* two documented parameters and text after the field list
C1_Witness ==
    /\ C1_Case
    /\ C1_OneFieldList
    /\ Len(params) = 2
    /\ lines[Len(lines)] = Prose
    /\ Len(lines) = Len(orig) + 3

(***************************************************************************)
(* C2                                                                      *)
(***************************************************************************)

\* C2: when the buffer holds a :rtype: field line, the return-type
\* handling leaves the buffer as it is, under every configuration
C2_RtypeRespected == [][(pc = "rtype" /\ HasRtypeField(lines)) => lines' = lines]_vars

\* the return-type handling ran on a buffer with a :rtype: line and a
\* :return: line it would otherwise have rewritten
C2_Witness ==
    /\ pc = "done"
    /\ rinfo = "skip"
    /\ HasRtypeField(lines)
    /\ HasReturnField(lines)
    /\ ~config.typehints_use_rtype

(***************************************************************************)
(* C3                                                                      *)
(***************************************************************************)

\* C3 as stated: under every configuration the original buffer is an
\* order-preserving subsequence of the buffer process_docstring leaves
C3_Original == pc = "done" => IsSubsequence(orig, lines)

\* line b of the result stands for line a of the original buffer: it is a,
\* or a with a default suffix ('braces-after'), or the rewritten return
\* description (typehints_use_rtype disabled)
C3_Stands(a, b) ==
    \/ b = a
    \/ /\ config.typehints_defaults = "braces-after"
       /\ Len(b) > Len(a)
       /\ SubSeq(b, 1, Len(a)) = a
    \/ /\ ~config.typehints_use_rtype
       /\ IsReturnField(a)
       /\ IsReturnField(b)

RECURSIVE C3_Embeds(_, _)
C3_Embeds(small, big) ==
    IF small = <<>> THEN TRUE
    ELSE IF big = <<>> THEN FALSE
    ELSE \/ C3_Stands(Head(small), Head(big)) /\ C3_Embeds(Tail(small), Tail(big))
         \/ C3_Embeds(small, Tail(big))

\* C3 (amended): no line is deleted or reordered; every original line is
\* still there with identical text, except a line that got a default
\* suffix under 'braces-after' and a :return: line rewritten with
\* typehints_use_rtype disabled
C3_NothingLost == pc = "done" => C3_Embeds(orig, lines)

\* a :type line was inserted and the :return: line rewritten
C3_Witness ==
    /\ pc = "done"
    /\ rinfo = "rewrite"
    /\ ins # -1
    /\ Len(lines) > Len(orig)
    /\ ~IsSubsequence(orig, lines)

(***************************************************************************)
(* Parameter fields as the specification describes them                    *)
(***************************************************************************)

\* the seven keywords of a parameter field
FieldKeywords == {"param", "parameter", "arg", "argument", "keyword", "kwarg", "kwparam"}

\* the names parameter `name` may be documented under with a star prefix
StarNames(name) == {<<"\\*">> \o name, <<"\\*", "*">> \o name, <<"\\*", "\\*">> \o name}

\* line is a field of parameter `name`, written with one of keywords
IsFieldLineOf(line, keywords, name) ==
    \E keyword \in keywords : \E doc_name \in {name} \cup StarNames(name) :
        IsFieldOf(line, keyword, doc_name)

\* the name between the keyword and the second colon of a field line
DocNameOf(line) == SubSeq(line, 4, IndexFrom(line, COLON, 4) - 1)

\* the parameter loop is about to handle params[k]
AtParameter == pc = "signature" /\ k <= Len(params)

\* the return-type handling is about to run, for a function or method with
\* a return annotation, with typehints_document_rtype set
AtReturn ==
    /\ pc = "rtype"
    /\ ret # ""
    /\ ~skipReturn
    /\ config.typehints_document_rtype

\* the text " -- " in a line
HasSeparator(line) ==
    \E i \in 2..(Len(line) - 1) : line[i - 1] = SP /\ line[i] = "--" /\ line[i + 1] = SP

\* typehints_use_rtype is disabled and the first :return:/:returns: line of
\* the buffer is line j
FoldInto(j) ==
    /\ ~config.typehints_use_rtype
    /\ HasReturnField(lines)
    /\ j = Min(Positions(lines, IsReturnField))

(***************************************************************************)
(* C4                                                                      *)
(***************************************************************************)

\* C4: right after a type field has been inserted for a parameter, the
\* `:type <name>:` line is at the insertion index i and the parameter's
\* field line at i + 1, for a discovered and for a synthesized field line
C4_TypeBeforeField ==
    [][(AtParameter /\ pc' = "signature" /\ ins' # -1) =>
          /\ ins' + 2 <= Len(lines')
          /\ IsFieldOf(lines'[ins' + 1], "type", insName')
          /\ \E keyword \in FieldKeywords : IsFieldOf(lines'[ins' + 2], keyword, insName')]_vars

(***************************************************************************)
(* C5                                                                      *)
(***************************************************************************)

\* params[k] is annotated and has no field line in the buffer, and
\* always_document_param_types is set
C5_Case ==
    /\ AtParameter
    /\ params[k].annotation # ""
    /\ config.always_document_param_types
    /\ \A i \in 1..Len(lines) : ~IsFieldLineOf(lines[i], FieldKeywords, params[k].name)

\* C5: for every parameter without a field line (here: every such parameter
\* that has a type to document), with always_document_param_types set, a bare `:param <name>:` line is appended
\* at the end of the buffer and a type field is emitted for it
C5_Synthesized ==
    [][C5_Case =>
          /\ pc' = "signature"
          /\ Len(lines') = Len(lines) + 2
          /\ SubSeq(lines', 1, Len(lines)) = lines
          /\ \E i \in {Len(lines) + 1, Len(lines) + 2} :
                lines'[i] = <<COLON, "param", SP>> \o params[k].name \o <<COLON>>
          /\ \E i \in {Len(lines) + 1, Len(lines) + 2} :
                IsFieldOf(lines'[i], "type", params[k].name)]_vars

(***************************************************************************)
(* C6                                                                      *)
(***************************************************************************)

\* params[k] is annotated and line j is the first field line of it, written
\* with any of the seven keywords
C6_Case(j) ==
    /\ AtParameter
    /\ params[k].annotation # ""
    /\ j \in 1..Len(lines)
    /\ IsFieldLineOf(lines[j], FieldKeywords, params[k].name)
    /\ \A h \in 1..(j - 1) : ~IsFieldLineOf(lines[h], FieldKeywords, params[k].name)

\* C6: a line with any of the seven keywords and the parameter's name is
\* recognised as the parameter's field, and the type field of an annotated
\* parameter is inserted at that line
C6_SevenKeywords ==
    [][\A j \in 1..Len(lines) : C6_Case(j) =>
          /\ Len(lines') = Len(lines) + 1
          /\ StartsWith(lines'[j], TypeFieldLine(DocNameOf(lines[j]), params[k].annotation))
          /\ StartsWith(lines'[j + 1], lines[j])]_vars

(***************************************************************************)
(* C7                                                                      *)
(***************************************************************************)

\* line j is the first field line of params[k], a `:param`-family line that
\* names it with a star prefix
C7_Case(j) ==
    /\ AtParameter
    /\ j \in 1..Len(lines)
    /\ \E keyword \in {"param", "parameter", "arg", "argument"} :
          \E doc_name \in StarNames(params[k].name) : IsFieldOf(lines[j], keyword, doc_name)
    /\ \A h \in 1..(j - 1) :
          ~IsFieldLineOf(lines[h], {"param", "parameter", "arg", "argument"}, params[k].name)

\* C7: a field line naming p as \*p, \**p or \*\*p matches p, and the
\* type field inserted directly before it carries the name exactly as the
\* field line writes it
C7_StarNameKept ==
    [][\A j \in 1..Len(lines) : C7_Case(j) =>
          /\ Len(lines') = Len(lines) + 1
          /\ IsFieldOf(lines'[j], "type", DocNameOf(lines[j]))
          /\ StartsWith(lines'[j + 1], lines[j])]_vars

\* `:type \*\*x: <int>` has been inserted directly before `:param \*\*x: foo`
C7_Witness ==
    /\ pc = "signature"
    /\ ins # -1
    /\ ~synth
    /\ insName = <<"\\*", "\\*", "x">>
    /\ ins + 2 <= Len(lines)
    /\ lines[ins + 1] = TypeFieldLine(<<"\\*", "\\*", "x">>, "int")
    /\ lines[ins + 2] = DocLine("param", <<"\\*", "\\*">>, <<"x">>)

(***************************************************************************)
(* C8                                                                      *)
(***************************************************************************)

\* the rendered type stands before the separator of the line
TypeBeforeSeparator(line, annotation) ==
    \E i \in 1..Len(line) : \E j \in (i + 1)..Len(line) :
        line[i] = "<" \o annotation \o ">" /\ line[j] = "--"

\* C8 as stated: with typehints_use_rtype disabled and a :return: line that
\* already has " -- ", that line is rewritten so that the rendered type
\* stands before the separator, and no line is inserted
C8_Original ==
    [][\A j \in 1..Len(lines) :
          (AtReturn /\ ~HasRtypeField(lines) /\ FoldInto(j) /\ HasSeparator(lines[j])) =>
              /\ Len(lines') = Len(lines)
              /\ TypeBeforeSeparator(lines'[j], ret)]_vars

\* C8 (amended): with typehints_use_rtype disabled and a first :return: line
\* that already has " -- ", that line is left exactly as written and no line
\* is inserted
C8_LineKept ==
    [][\A j \in 1..Len(lines) :
          (AtReturn /\ ~HasRtypeField(lines) /\ FoldInto(j) /\ HasSeparator(lines[j])) =>
              /\ Len(lines') = Len(lines)
              /\ lines'[j] = lines[j]
              /\ ~TypeBeforeSeparator(lines'[j], ret)
              /\ ~HasRtypeField(lines')]_vars

\* the return-type handling met `:returns: Custom -- desc` and kept it
C8_Witness ==
    /\ pc = "done"
    /\ rinfo = "keep"
    /\ ~config.typehints_use_rtype
    /\ ReturnsTyped \in {lines[i] : i \in 1..Len(lines)}
    /\ ~HasRtypeField(lines)

(***************************************************************************)
(* C9                                                                      *)
(***************************************************************************)

\* C9: with typehints_use_rtype disabled and a first :return:/:returns: line
\* that already has " -- ", the return-type handling leaves the whole buffer
\* unchanged
C9_BufferKept ==
    [][\A j \in 1..Len(lines) :
          (pc = "rtype" /\ FoldInto(j) /\ HasSeparator(lines[j])) => lines' = lines]_vars

\* the typed return line comes first, a plain one follows, and neither has
\* been touched
C9_Witness ==
    /\ pc = "done"
    /\ rinfo = "keep"
    /\ Len(lines) >= 3
    /\ lines[Len(lines) - 1] = ReturnsTyped
    /\ lines[Len(lines)] = ReturnPlain

(***************************************************************************)
(* C10                                                                     *)
(***************************************************************************)

\* the text after the field marker of a :return:/:returns: line, without
\* the space that separates it from the marker
DescriptionOf(line) ==
    IF Len(line) >= 4 /\ line[4] = SP THEN Slice(line, 5) ELSE Slice(line, 4)

\* C10: with typehints_use_rtype disabled, a first :return:/:returns: line
\* without " -- " is replaced by `:return: <rendered type> -- <description>`,
\* whatever the description; nothing else changes
C10_Folded ==
    [][\A j \in 1..Len(lines) :
          (AtReturn /\ ~HasRtypeField(lines) /\ FoldInto(j) /\ ~HasSeparator(lines[j])) =>
              lines' = [lines EXCEPT ![j] =
                           <<COLON, "return", COLON, SP, "<" \o ret \o ">", SP, "--", SP>>
                               \o DescriptionOf(lines[j])]]_vars

(***************************************************************************)
(* The parameter field list of a buffer                                    *)
(***************************************************************************)

\* the buffer has a top-level field list with a parameter-synonym field
HasParamList(buf) == \E c \in 1..Len(DocChildren(buf)) : IsParamList(DocChildren(buf)[c])

\* the first line of the first such field list
ParamListStart(buf) ==
    CHOOSE i \in 1..Len(buf) :
        \E c \in 1..Len(DocChildren(buf)) :
            /\ IsParamList(DocChildren(buf)[c])
            /\ DocChildren(buf)[c].line_no = {i}
            /\ \A d \in 1..(c - 1) : ~IsParamList(DocChildren(buf)[d])

\* the first line of the block that follows the field list starting at
\* line s, Len(buf) + 1 when nothing follows
BlockAfter(buf, s) == NextOfKind(buf, s + 1, {"text", "directive"})

\* the last non-blank line before line f
LastLineBefore(buf, f) == Max({0} \cup {i \in 1..(f - 1) : LineKind(buf[i]) # "blank"})

\* the :rtype: line has been put after the last line of the parameter field
\* list of `before` and before the block starting at line f of `before`
RtypeBetween(before, after, f, annotation) ==
    \E j \in (IF f > Len(before) THEN f ELSE LastLineBefore(before, f) + 1)..f :
        after = InsertedAt(before, j, RtypeFieldLine(annotation))

\* line f starts a block whose line the parse determines: a paragraph, or
\* a directive or definition of one line with exactly one blank line after it
StartsPlainBlock(buf, f) ==
    \/ LineKind(buf[f]) = "text" /\ (f = Len(buf) \/ LineKind(buf[f + 1]) # "indent")
    \/ /\ LineKind(buf[f]) = "text"
       /\ f < Len(buf)
       /\ LineKind(buf[f + 1]) = "indent"
       /\ OneBlankAt(buf, f + 2)
    \/ LineKind(buf[f]) = "directive" /\ OneBlankAt(buf, f + 1)

(***************************************************************************)
(* C11                                                                     *)
(***************************************************************************)

\* the return-type handling is about to run on a buffer without a return
\* field that has a parameter field list
C11_Case ==
    /\ AtReturn
    /\ ~HasRtypeField(lines)
    /\ ~HasReturnField(lines)
    /\ HasParamList(lines)

\* a blank line separates the parameter field list from the block that
\* follows it, and that block is a paragraph or a one-line directive or
\* definition; or nothing follows the field list
C11_Separated ==
    \/ BlockAfter(lines, ParamListStart(lines)) > Len(lines)
    \/ /\ LineKind(lines[BlockAfter(lines, ParamListStart(lines)) - 1]) = "blank"
       /\ StartsPlainBlock(lines, BlockAfter(lines, ParamListStart(lines)))

RECURSIVE FirstOtherBlock(_, _)
FirstOtherBlock(buf, i) ==
    IF i > Len(buf) THEN 0
    ELSE IF LineKind(buf[i]) = "blank" THEN FirstOtherBlock(buf, i + 1)
    ELSE IF LineKind(buf[i]) = "field"
      THEN FirstOtherBlock(buf, NextOfKind(buf, i + 1, {"text", "directive"}))
    ELSE IF LineKind(buf[i]) = "text" /\ (i = Len(buf) \/ LineKind(buf[i + 1]) # "indent")
      THEN FirstOtherBlock(buf, NextOfKind(buf, i + 1, {"blank", "indent"}))
    ELSE i

\* the first child of the document that is no paragraph, literal block or
\* field list is a directive or a definition list, not a block quote or a
\* warning of the parser
FirstOtherIsBlock(doc) ==
    \E c \in 1..Len(doc) :
        /\ doc[c].tag \in {"rubric", "definition_list"}
        /\ \A d \in 1..(c - 1) : doc[d].tag \in {"paragraph", "field_list"}

\* the return-type handling is about to run on a buffer without a return
\* field and without a parameter field list, that has a block which is
\* neither a paragraph nor a field list
C12_Case ==
    /\ AtReturn
    /\ ~HasRtypeField(lines)
    /\ ~HasReturnField(lines)
    /\ ~HasParamList(lines)
    /\ FirstOtherIsBlock(DocChildren(lines))
    /\ FirstOtherBlock(lines, 1) # 0

\* the :rtype: line and a blank line after it have been put right before
\* line f of `before`
RtypeAndBlankBefore(before, after, f, annotation) ==
    after = SubSeq(before, 1, f - 1) \o <<RtypeFieldLine(annotation), <<>>>>
                \o SubSeq(before, f, Len(before))

C12_OneLineBlock ==
    /\ LineKind(lines[FirstOtherBlock(lines, 1)]) \in {"text", "directive"}
    /\ StartsPlainBlock(lines, FirstOtherBlock(lines, 1))

DefaultSuffix == <<SP, "(", "default", COLON, SP, "<repr>", ")">>

\* the first line after line j that is neither empty nor space-indented,
\* Len(buf) + 1 when there is none
ScanEnd(buf, j) ==
    IF \E e \in (j + 1)..Len(buf) : buf[e] # <<>> /\ buf[e][1] # SP
      THEN Min({e \in (j + 1)..Len(buf) : buf[e] # <<>> /\ buf[e][1] # SP})
      ELSE Len(buf) + 1

\* the last non-empty line from line j up to the end of the scan
LastOfField(buf, j) == Max({i \in j..(ScanEnd(buf, j) - 1) : buf[i] # <<>>})

\* the `:type` line without a default: `:type <name>: <type>`, and
\* `:type <name>: ` for a parameter without annotation
PlainTypeLine(name, annotation) ==
    <<COLON, "type", SP>> \o name \o <<COLON, SP>>
        \o (IF annotation = "" THEN <<>> ELSE <<"<" \o annotation \o ">">>)

\* typehints_defaults is 'braces-after', params[k] has a default value and
\* line j is its field line, the first one written with param, parameter,
\* arg or argument
C13_Case(j) ==
    /\ AtParameter
    /\ config.typehints_defaults = "braces-after"
    /\ params[k].has_default
    /\ j \in 1..Len(lines)
    /\ IsFieldLineOf(lines[j], {"param", "parameter", "arg", "argument"}, params[k].name)
    /\ \A h \in 1..(j - 1) :
          ~IsFieldLineOf(lines[h], {"param", "parameter", "arg", "argument"}, params[k].name)

\* C13: with 'braces-after' the default of a documented parameter is
\* appended to the last non-empty line among its field line and the blank
\* or space-indented lines after it, and the inserted :type line has no
\* default suffix
C13_DefaultAfter ==
    [][\A j \in 1..Len(lines) : C13_Case(j) =>
          lines' = InsertedAt(
                      [lines EXCEPT ![LastOfField(lines, j)] = @ \o DefaultSuffix],
                      j, PlainTypeLine(DocNameOf(lines[j]), params[k].annotation))]_vars

\* the default went to a continuation line that follows a blank line
C13_Witness ==
    /\ pc = "signature"
    /\ config.typehints_defaults = "braces-after"
    /\ ins # -1
    /\ Len(lines) >= ins + 4
    /\ lines[ins + 1] = PlainTypeLine(<<"x">>, "int")
    /\ lines[ins + 2] = ParamX
    /\ lines[ins + 3] = Blank
    /\ lines[ins + 4] = Continuation \o DefaultSuffix

(***************************************************************************)
(* C14                                                                     *)
(***************************************************************************)

\* validate_config is about to run; no docstring has been touched
AtValidation == pc = "env-before-read-docs" /\ lines = orig /\ k = 1

\* C14 as stated: validate_config raises exactly when typehints_defaults is
\* not one of none, 'comma', 'braces', 'braces-after' or typehints_formatter
\* is neither absent nor callable
C14_Original ==
    [][AtValidation =>
          (pc' = "ValueError" <=>
              \/ config.typehints_defaults \notin {"none", "comma", "braces", "braces-after"}
              \/ config.typehints_formatter = "uncallable")]_vars

\* C14 (amended): validate_config raises exactly when typehints_defaults is
\* not one of None, False, 'comma', 'braces', 'braces-after' or
\* typehints_formatter is neither absent nor callable; the error comes
\* before any docstring buffer has been processed
C14_Validated ==
    [][pc = "env-before-read-docs" =>
          /\ lines = orig /\ k = 1
          /\ lines' = lines
          /\ pc' \in {"ValueError", "signature"}
          /\ (pc' = "ValueError" <=>
                \/ config.typehints_defaults
                      \notin {"none", "false", "comma", "braces", "braces-after"}
                \/ config.typehints_formatter = "uncallable")]_vars

\* the build stopped on a formatter that is not callable, with a valid
\* typehints_defaults and the docstring untouched
C14_Witness ==
    /\ pc = "ValueError"
    /\ config.typehints_formatter = "uncallable"
    /\ config.typehints_defaults = "braces"
    /\ lines = orig
    /\ Len(lines) = 2

(***************************************************************************)
(* Notions the claims about format_annotation are stated with              *)
(***************************************************************************)

\* the configured formatter returns a value for the annotation
Answers(cfg, annotation) ==
    /\ cfg.typehints_formatter # "none"
    /\ ~typehints_formatter(cfg.typehints_formatter, annotation).none

\* the configured formatter returns None for the annotation and for every
\* argument nested in it
RECURSIVE DeclinesAll(_, _)
DeclinesAll(cfg, annotation) ==
    /\ ~Answers(cfg, annotation)
    /\ \A i \in 1..Len(annotation.args) : DeclinesAll(cfg, annotation.args[i])

Occurs(token, rendering) == \E i \in 1..Len(rendering) : rendering[i] = token

Count(token, rendering) == Cardinality({i \in 1..Len(rendering) : rendering[i] = token})

WithoutFormatter(cfg) == [cfg EXCEPT !.typehints_formatter = "none"]

(***************************************************************************)
(* C15                                                                     *)
(* format_annotation asks the configured formatter before any built-in     *)
(* rule.  When the formatter returns a value for the annotation, be it     *)
(* None, an ellipsis, a forward reference or anything else, that value is  *)
(* the rendering.  When a generic alias is rendered by the built-in rules, *)
(* the value the formatter returns for one of its arguments stands in the  *)
(* rendering.  When the formatter returns None for the annotation and for  *)
(* every argument nested in it, the rendering is the one of the same       *)
(* configuration with no formatter.                                        *)
(***************************************************************************)
C15_Verbatim ==
    Answers(config, ann) => rendered = typehints_formatter(config.typehints_formatter, ann).value

C15_Nested ==
    (~Answers(config, ann) /\ ann.kind = "_GenericAlias") =>
        \A i \in 1..Len(ann.args) :
            Answers(config, ann.args[i]) =>
                Occurs(typehints_formatter(config.typehints_formatter, ann.args[i]).value[1], rendered)

C15_BuiltIn ==
    DeclinesAll(config, ann) => rendered = format_annotation(ann, WithoutFormatter(config))

C15_FormatterFirst ==
    pc = "formatted" => C15_Verbatim /\ C15_Nested /\ C15_BuiltIn

\* the formatter answered for an ellipsis nested in a tuple, and the built-in
\* rules rendered the tuple around it
C15_Witness ==
    /\ pc = "formatted"
    /\ config.typehints_formatter = "special"
    /\ expression = TupleOf(Name("int"))
    /\ Occurs(FormatterValue(EllipsisObject).value[1], rendered)
    /\ Occurs(Token("data", "~", <<"typing", "Tuple">>), rendered)

\* the expression names None nowhere
RECURSIVE NoneFree(_)
NoneFree(e) ==
    /\ e.op \notin {"None", "Optional"}
    /\ \A i \in 1..Len(e.args) : NoneFree(e.args[i])

\* the built-in rendering of Optional[X] under the bracketed spelling: the
\* expression is Optional[X] for an X that names None nowhere, no formatter
\* is configured and always_use_bars_union is off
OptionalCase(simplify) ==
    /\ pc = "formatted"
    /\ config.typehints_formatter = "none"
    /\ ~config.always_use_bars_union
    /\ config.simplify_optional_unions = simplify
    /\ expression.op = "Optional"
    /\ NoneFree(expression.args[1])

\* X, the operand of the Optional, as the typing runtime builds it
Operand == Evaluate(expression.args[1])

Prefix(cfg) == IF cfg.typehints_fully_qualified THEN "" ELSE "~"
OptionalRef(cfg) == Token("data", Prefix(cfg), <<"typing", "Optional">>)
UnionRef(cfg) == Token("data", Prefix(cfg), <<"typing", "Union">>)

StartsWithTokens(rendering, tokens) ==
    /\ Len(rendering) >= Len(tokens)
    /\ SubSeq(rendering, 1, Len(tokens)) = tokens

EndsWithTokens(rendering, tokens) ==
    /\ Len(rendering) >= Len(tokens)
    /\ SubSeq(rendering, Len(rendering) - Len(tokens) + 1, Len(rendering)) = tokens

\* the rendering holds Optional\ \[Union\[ ... somewhere
HasOptionalUnionWrapper(rendering, cfg) ==
    \E i \in 1..Len(rendering) :
        /\ i + 4 <= Len(rendering)
        /\ SubSeq(rendering, i, i + 4) = <<OptionalRef(cfg), ESCAPE, OPEN, UnionRef(cfg), OPEN>>

(***************************************************************************)
(* C16                                                                     *)
(* As claimed: with simplify_optional_unions on, the rendering of          *)
(* Optional[X] holds no None token, whatever X is.                         *)
(***************************************************************************)
C16_Original == OptionalCase(TRUE) => ~Occurs(NoneRef, rendered)

(***************************************************************************)
(* C16, amended                                                            *)
(* With simplify_optional_unions on, Optional[X] for an X that is no union *)
(* renders as Optional[ X ] with no None token; for an X that is a union   *)
(* of two or more members it renders as Union[ members, None ]: the None   *)
(* token stands once, as the last member, and there is no Optional         *)
(* reference.                                                              *)
(***************************************************************************)
C16_Simplified ==
    OptionalCase(TRUE) =>
        IF IsUnion(Operand)
        THEN /\ StartsWithTokens(rendered, <<UnionRef(config), ESCAPE, OPEN>>)
             /\ EndsWithTokens(rendered, <<COMMA, NoneRef, CLOSE>>)
             /\ Count(NoneRef, rendered) = 1
             /\ ~Occurs(OptionalRef(config), rendered)
        ELSE /\ rendered = <<OptionalRef(config), ESCAPE, OPEN>>
                              \o format_annotation(Operand, config) \o <<CLOSE>>
             /\ ~Occurs(NoneRef, rendered)

\* Optional[Union[int, str]] was rendered as Union[int, str, None]
C16_Witness ==
    /\ OptionalCase(TRUE)
    /\ expression = OptionalOf(UnionOf(<<Name("int"), Name("str")>>))
    /\ Count(NoneRef, rendered) = 1

(***************************************************************************)
(* C17                                                                     *)
(* As claimed: with simplify_optional_unions off, the rendering of         *)
(* Optional[X] holds an Optional[Union[...]] wrapper and holds the None    *)
(* token exactly once.                                                     *)
(***************************************************************************)
C17_Original ==
    OptionalCase(FALSE) =>
        /\ HasOptionalUnionWrapper(rendered, config)
        /\ Count(NoneRef, rendered) = 1

(***************************************************************************)
(* C17, amended                                                            *)
(* With simplify_optional_unions off, Optional[X] for an X that is a union *)
(* of two or more members renders as Optional[Union[ members ]], for any   *)
(* other X as Optional[ X ]; in both the None arm is dropped, so the       *)
(* rendering holds no None token.                                          *)
(***************************************************************************)
C17_Unsimplified ==
    OptionalCase(FALSE) =>
        /\ ~Occurs(NoneRef, rendered)
        /\ IF IsUnion(Operand)
           THEN /\ StartsWithTokens(rendered, <<OptionalRef(config), ESCAPE, OPEN, UnionRef(config), OPEN>>)
                /\ EndsWithTokens(rendered, <<CLOSE, CLOSE>>)
           ELSE rendered = <<OptionalRef(config), ESCAPE, OPEN>>
                              \o format_annotation(Operand, config) \o <<CLOSE>>

\* Optional[Union[int, str]] was rendered with the wrapper and without None
C17_Witness ==
    /\ OptionalCase(FALSE)
    /\ expression = OptionalOf(UnionOf(<<Name("int"), Name("str")>>))
    /\ HasOptionalUnionWrapper(rendered, config)
    /\ ~Occurs(NoneRef, rendered)

\* the three spellings of an optional union of int and str
UnionOfOptionalFirst == UnionOf(<<OptionalOf(Name("int")), Name("str")>>)
UnionOfOptionalLast == UnionOf(<<Name("int"), OptionalOf(Name("str"))>>)
OptionalOfUnion == OptionalOf(UnionOf(<<Name("int"), Name("str")>>))
ThreeSpellings == {UnionOfOptionalFirst, UnionOfOptionalLast, OptionalOfUnion}

(***************************************************************************)
(* C18                                                                     *)
(* As claimed: Union[Optional[int], str], Union[int, Optional[str]] and    *)
(* Optional[Union[int, str]] render to one and the same string under the   *)
(* same configuration.                                                     *)
(***************************************************************************)
C18_Original ==
    (pc = "formatted" /\ expression \in ThreeSpellings) =>
        rendered = format_annotation(Evaluate(OptionalOfUnion), config)

(***************************************************************************)
(* C18, amended                                                            *)
(* Union[int, Optional[str]] and Optional[Union[int, str]] render to the   *)
(* same string under every configuration.  Union[Optional[int], str]       *)
(* rendered by the built-in rules gives that string too when None is       *)
(* dropped from the members, that is with simplify_optional_unions off and *)
(* always_use_bars_union off; when None is rendered as a member it stands  *)
(* where it was received, second, and the rendering has the same tokens in *)
(* another order.                                                          *)
(***************************************************************************)
SameTokens(a, b) ==
    /\ Len(a) = Len(b)
    /\ \A i \in 1..Len(a) : Count(a[i], a) = Count(a[i], b)

C18_SameWhenCollapsed ==
    (pc = "formatted" /\ expression \in ThreeSpellings) =>
        IF expression # UnionOfOptionalFirst
        THEN rendered = format_annotation(Evaluate(OptionalOfUnion), config)
        ELSE DeclinesAll(config, ann) =>
                /\ SameTokens(rendered, format_annotation(Evaluate(OptionalOfUnion), config))
                /\ (~config.simplify_optional_unions /\ ~config.always_use_bars_union)
                   => rendered = format_annotation(Evaluate(OptionalOfUnion), config)
                /\ (config.simplify_optional_unions \/ config.always_use_bars_union)
                   => rendered # format_annotation(Evaluate(OptionalOfUnion), config)

\* Union[Optional[int], str] was rendered as Optional[Union[int, str]]
C18_Witness ==
    /\ pc = "formatted"
    /\ expression = UnionOfOptionalFirst
    /\ config.typehints_formatter = "none"
    /\ ~config.simplify_optional_unions
    /\ ~config.always_use_bars_union
    /\ HasOptionalUnionWrapper(rendered, config)
    /\ rendered = format_annotation(Evaluate(OptionalOfUnion), config)

(***************************************************************************)
(* C19                                                                     *)
(* With always_use_bars_union on and the built-in rules at work, a Union   *)
(* or Optional annotation renders as its members, flattened and in the     *)
(* order received, each rendered by format_annotation and joined by " | ", *)
(* None being a member like any other; and no rendering, of a union or of  *)
(* an annotation that nests one, holds a reference to Optional or Union.   *)
(***************************************************************************)
C19_Case ==
    /\ pc = "formatted"
    /\ config.always_use_bars_union
    /\ DeclinesAll(config, ann)

C19_Members(members) ==
    /\ Len(members) >= 2
    /\ \A i \in 1..Len(members) : ~IsUnion(members[i])
    /\ rendered = Join([i \in 1..Len(members) |-> format_annotation(members[i], config)], BAR)
    /\ HasNone(members) => Occurs(NoneRef, rendered)

C19_BarsUnion ==
    C19_Case =>
        /\ IsUnion(ann) => C19_Members(ann.args)
        /\ ~Occurs(OptionalRef(config), rendered)
        /\ ~Occurs(UnionRef(config), rendered)

\* a list of an optional int was rendered with a bar inside the brackets
C19_Witness ==
    /\ C19_Case
    /\ expression = ListOf(OptionalOf(Name("int")))
    /\ Count(BAR, rendered) = 1
    /\ Occurs(NoneRef, rendered)

(***************************************************************************)
(* Notions the claim about type comments is stated with                    *)
(***************************************************************************)

\* the arguments of a function: positional-only, positional, *vararg,
\* keyword-only, **kwarg
ArgumentOrder(obj_ast) ==
    obj_ast.posonlyargs
    \o obj_ast.args
    \o (IF obj_ast.vararg = "" THEN <<>> ELSE <<obj_ast.vararg>>)
    \o obj_ast.kwonlyargs
    \o (IF obj_ast.kwarg = "" THEN <<>> ELSE <<obj_ast.kwarg>>)

\* the names of a sequence of names
Names(arguments) == {arguments[i] : i \in 1..Len(arguments)}

\* the map {return: R, a1: T1, .., an: Tn}
IsMapOf(map, arguments, types, returns) ==
    /\ DOMAIN map = {"return"} \cup Names(arguments)
    /\ map["return"] = returns
    /\ \A i \in 1..Len(arguments) : map[arguments[i]] = types[i]

(***************************************************************************)
(* C20                                                                     *)
(* For a function whose type comment is (T1, .., Tn) -> R with one type    *)
(* for each of its n arguments, backfill_type_hints returns the map with   *)
(* R under return and Ti under the i-th argument, the arguments counted    *)
(* positional-only first, then positional, *vararg, keyword-only and       *)
(* **kwarg, and with no other key.                                         *)
(***************************************************************************)
C20_Backfilled ==
    pc = "backfilled" =>
        \A types \in BoundedSeq(CommentTypes, MaxCommentTypes), returns \in {<<"bool">>, <<"None">>} :
            (/\ Len(types) = Len(ArgumentOrder(func))
             /\ func.type_comment = TypeComment(func, types, returns))
            => IsMapOf(hints, ArgumentOrder(func), types, returns)

\* a function with an argument of each kind got its five types and the
\* return type, the *vararg and the keyword-only argument different ones
C20_Witness ==
    /\ pc = "backfilled"
    /\ ArgumentOrder(func) = <<"p", "x", "v", "k", "kw">>
    /\ DOMAIN hints = {"return", "p", "x", "v", "k", "kw"}
    /\ hints["v"] = <<"int">>
    /\ hints["k"] # <<"int">>
    /\ hints["return"] = <<"bool">>

(***************************************************************************)
(* C21                                                                     *)
(* For a function whose type comment is (T1, .., Tn) -> R with n different *)
(* from the number of its arguments, and different from it still when the  *)
(* blank for an omitted self or cls is counted, backfill_type_hints logs   *)
(* the warning that there are not enough type comments and returns; the   *)
(* map it returns holds no key but return, which is R when the comment     *)
(* writes a return type.                                                   *)
(***************************************************************************)
Miscounted(obj_ast, types) ==
    /\ Len(types) # Len(ArgumentOrder(obj_ast))
    /\ ~(/\ ArgumentOrder(obj_ast) # <<>>
         /\ ArgumentOrder(obj_ast)[1] \in {"self", "cls"}
         /\ Len(types) + 1 = Len(ArgumentOrder(obj_ast)))

C21_Miscounted ==
    pc = "backfilled" =>
        \A types \in BoundedSeq(CommentTypes, MaxCommentTypes), returns \in CommentReturns :
            (/\ Miscounted(func, types)
             /\ func.type_comment = TypeComment(func, types, returns))
            => /\ log = <<NOT_ENOUGH>>
               /\ DOMAIN hints \subseteq {"return"}
               /\ returns # <<>> => (DOMAIN hints = {"return"} /\ hints["return"] = returns)

\* a method with two arguments after self whose comment lists one type:
\* one warning and the return type alone
C21_Witness ==
    /\ pc = "backfilled"
    /\ ArgumentOrder(func) = <<"self", "x", "k">>
    /\ func.type_comment = TypeComment(func, <<<<"int">>>>, <<"bool">>)
    /\ log = <<NOT_ENOUGH>>
    /\ DOMAIN hints = {"return"}

(***************************************************************************)
(* Notions the claim about the split of an argument list is stated with    *)
(***************************************************************************)

\* the text without the spaces around it
Unspaced(text) ==
    IF \A i \in 1..Len(text) : text[i] = SP THEN <<>>
    ELSE SubSeq(text, Min({i \in 1..Len(text) : text[i] # SP}),
                Max({i \in 1..Len(text) : text[i] # SP}))

\* the text without the stars it begins with
Unstarred(text) ==
    IF \A i \in 1..Len(text) : text[i] = STAR THEN <<>>
    ELSE SubSeq(text, Min({i \in 1..Len(text) : text[i] # STAR}), Len(text))

\* the argument list of a type comment: what stands between the
\* parentheses that enclose it
ArgumentList(type_comment) ==
    SubSeq(Unspaced(SubSeq(type_comment, 1, ArrowAt(type_comment) - 1)), 2,
           Len(Unspaced(SubSeq(type_comment, 1, ArrowAt(type_comment) - 1))) - 1)

\* the number of brackets and parentheses open at token i
Depth(text, i) ==
    Cardinality({j \in 1..(i - 1) : text[j] \in {LBRACKET, LPAREN}})
    - Cardinality({j \in 1..(i - 1) : text[j] \in {RBRACKET, RPAREN}})

DepthZeroCommas(text) ==
    {i \in 1..Len(text) : text[i] = COMMACHAR /\ Depth(text, i) = 0}

\* the pieces between the commas at depth zero from token start on, each
\* without the spaces around it and then without the stars it begins with
RECURSIVE PiecesFrom(_, _)
PiecesFrom(text, start) ==
    IF \A i \in DepthZeroCommas(text) : i < start
    THEN <<Unstarred(Unspaced(SubSeq(text, start, Len(text))))>>
    ELSE <<Unstarred(Unspaced(SubSeq(text, start,
                Min({i \in DepthZeroCommas(text) : i >= start}) - 1)))>>
         \o PiecesFrom(text, Min({i \in DepthZeroCommas(text) : i >= start}) + 1)

Pieces(text) == IF text = <<>> THEN <<>> ELSE PiecesFrom(text, 1)

\* the type comment is an argument list in parentheses, an arrow and a
\* return type
IsSignatureComment(type_comment) ==
    /\ Cardinality(ArrowsAt(type_comment)) = 1
    /\ Len(Unspaced(SubSeq(type_comment, 1, ArrowAt(type_comment) - 1))) >= 2
    /\ Unspaced(SubSeq(type_comment, 1, ArrowAt(type_comment) - 1))[1] = LPAREN

(***************************************************************************)
(* C25                                                                     *)
(* The list split_type_comment_args returns for the argument list of a     *)
(* type comment is the list of the pieces between the commas at bracket   *)
(* depth zero of the argument list, commas inside brackets or parentheses  *)
(* being no split points, each piece without the spaces around it and     *)
(* without the stars it begins with.                                       *)
(***************************************************************************)
C25_Original ==
    (pc = "backfilled" /\ IsSignatureComment(func.type_comment))
    => splitArgs = Pieces(ArgumentList(func.type_comment))

\* what the comment `((int), str) -> None` was split into: one piece, the
\* comma at depth zero inside it
C25_Unsplit ==
    /\ pc = "backfilled"
    /\ func.type_comment = <<LPAREN, LPAREN, "int", RPAREN, COMMACHAR, SP, "str", RPAREN,
                             ARROW, "None">>
    /\ splitArgs = <<<<"int", RPAREN, COMMACHAR, SP, "str">>>>

(***************************************************************************)
(* C24                                                                     *)
(***************************************************************************)

\* the parameters of sig that have a line in buf the parameter loop takes
\* for their field
DocumentedIn(buf, sig) ==
    {n \in 1..Len(sig) : \E i \in 1..Len(buf) : _line_is_param_line_for_arg(buf[i], sig[n].name)}

\* process_docstring ran to the end for a function whose annotation map
\* is empty
C24_Case ==
    /\ pc = "done"
    /\ ret = ""
    /\ \A n \in 1..Len(params) : params[n].annotation = ""

\* C24 as stated: when the annotation map is empty, process_docstring
\* leaves the buffer as it was handed in, also when the buffer holds
\* `:param` fields
C24_Original == C24_Case => lines = orig

\* C24 (amended): when the annotation map is empty, the buffer grows by one
\* line for each parameter of the signature that has a field line in it,
\* and is unchanged when there is none; the line is `:type <name>: ` with
\* an empty type, right before the first field line of the parameter, and
\* carries nothing but the default value; no `:rtype:` line and no
\* `:param` line is added
C24_Unannotated ==
    C24_Case =>
        /\ rinfo = "off"
        /\ Len(lines) = Len(orig) + Cardinality(DocumentedIn(orig, params))
        /\ DocumentedIn(orig, params) = {} => lines = orig
        /\ \A n \in DocumentedIn(orig, params) :
              \E i \in 1..(Len(lines) - 1) :
                 /\ StartsWith(lines[i], <<COLON, "type", SP>> \o params[n].name \o <<COLON, SP>>)
                 /\ ~(params[n].has_default /\ IsSet(config.typehints_defaults)
                        /\ config.typehints_defaults # "braces-after")
                      => lines[i] = <<COLON, "type", SP>> \o params[n].name \o <<COLON, SP>>
                 /\ _line_is_param_line_for_arg(lines[i + 1], params[n].name)
                 /\ \A j \in 1..(i - 1) : ~_line_is_param_line_for_arg(lines[j], params[n].name)
        /\ \A i \in 1..Len(lines) :
              (IsRtypeField(lines[i]) \/ \E n \in 1..Len(params) :
                                            _line_is_param_line_for_arg(lines[i], params[n].name))
              => \E j \in 1..Len(orig) : StartsWith(lines[i], orig[j])

\* x and y without annotations, both documented: two empty type lines, the
\* one of y with its default
C24_Witness ==
    /\ C24_Case
    /\ config.typehints_defaults = "comma"
    /\ orig = <<ParamX, ParamY>>
    /\ lines = <<<<COLON, "type", SP, "x", COLON, SP>>, ParamX,
                 <<COLON, "type", SP, "y", COLON, SP, "default", COLON, SP, DefaultLiteral>>,
                 ParamY>>

(***************************************************************************)
(* C26                                                                     *)
(***************************************************************************)

\* C26 as stated: under every valid configuration and on every buffer the
\* loop of _inject_signature over the parameters never indexes the buffer
\* out of range, also when it has synthesized the `:param` line of a
\* parameter with a default value
C26_Original == pc # "IndexError"

\* where it fails: the `:param x:` line was synthesized at the end of the
\* buffer and the default was to go on the line after it
C26_Raised ==
    /\ pc = "IndexError"
    /\ synth
    /\ ins = Len(lines)
    /\ config.typehints_defaults = "braces-after"
    /\ params[k].has_default

(***************************************************************************)
(* C28                                                                     *)
(***************************************************************************)

\* the line begins with `:<keyword> <name>:`, the name possibly written
\* with a star prefix
BeginsAsFieldOf(line, name) ==
    \E keyword \in FieldKeywords : \E prefix \in StarPrefixes :
        IsFieldOf(line, keyword, prefix \o name)

\* C28 as stated: the line the parameter loop has chosen as the field of a
\* parameter (the type field now stands right before it) begins with
\* `:<keyword> <name>:`; a line of prose or a continuation line that holds
\* `param <name>` between two colons further along is never chosen
C28_Original ==
    (pc = "signature" /\ ins # -1 /\ ~synth)
    => BeginsAsFieldOf(lines[ins + 2], params[k - 1].name)

\* the sentence `See :param x: there` was taken for the field of x
C28_ProseChosen ==
    /\ pc = "signature"
    /\ ins = 0
    /\ ~synth
    /\ lines = <<TypeFieldLine(<<"x">>, "int"), InProse>>

(***************************************************************************)
(* C30                                                                     *)
(***************************************************************************)

\* C30 as stated: _inject_rtype run again on the buffer it has left changes
\* nothing, so that the buffer never holds more than one `:rtype:` line
\* written by it and a `:return:` line is rewritten at most once
C30_Original == [][pc = "done" => lines' = lines]_vars

\* the second run has rewritten the `:return:` line the first run had
\* already rewritten: the type stands twice in it
C30_RewrittenTwice ==
    /\ pc = "again"
    /\ rinfo = "rewrite"
    /\ orig = <<ReturnBare>>
    /\ ~config.typehints_use_rtype
    /\ lines = <<<<COLON, "return", COLON, SP, FormattedAnnotation(ret), SP, "--",
                  SP, FormattedAnnotation(ret), SP, "--", COLON>>>>


(***************************************************************************)
(* Guarded imports                                                         *)
(***************************************************************************)

\* the modules of the callables resolved so far
Resolutions == {calls[i] : i \in DOMAIN calls}

\* no guard block of the build imports from the module
NotImportedFrom(module) ==
    \A other \in Modules : \A i \in DOMAIN sources[other] :
        sources[other][i].kind \in {"guarded", "missing"} => sources[other][i].module # module

EndsInFailure ==
    /\ stack # <<>>
    /\ Len(stack') = Len(stack)
    /\ Top(stack').at = Top(stack).at + 1
    /\ Exec(BlockAt(sources, stack), namespace) # NotRaised

\* C23, as stated: every guard block whose execution ends in failure gives
\* exactly one logged warning, and the loop goes on with the next block.
C23_Original ==
    [][EndsInFailure => log' = Append(log, FAILED_GUARDED_IMPORT)]_vars

\* a relative import has failed and the loop has gone on without a warning
C23_Silent ==
    /\ stack # <<>>
    /\ Top(stack).at = 2
    /\ sources[Top(stack).module][1].kind = "relative"
    /\ log = <<>>

\* C29, as stated: within one resolution the recursion reaches a module at
\* most once, so its depth is bounded by the number of modules.
C29_Original ==
    \A i, j \in 2..Len(stack) : i # j => stack[i].module # stack[j].module

\* the recursion is as deep as the interpreter lets it be
C29_Exhausted ==
    Len(stack) = RecursionLimit

====
